---- MODULE Spec2Model ----
(***************************************************************************)
(* The transaction pattern analysis engine of apps/ai-insights:            *)
(*   services/anomaly_service.py  AnomalyDetectionService                  *)
(*   services/payment_service.py  PaymentAnalysisService                   *)
(*   main.py                      the two endpoints that call them         *)
(*                                                                         *)
(* Representation of values.                                               *)
(*   amount      integer number of cents, signed (negative = spending)     *)
(*   posted_at   integer number of minutes since the epoch; Unparsable     *)
(*               stands for a string pd.to_datetime rejects                *)
(*   merchant_name, category   integer codes; the order of the codes is    *)
(*               the lexicographic order of the names                      *)
(*   confidence  integer, units of 1/10000 (0.95 is 9500), rounded down    *)
(*   z_score     the square of z is kept as an exact quotient with four    *)
(*               decimals and a flag telling whether the quotient is       *)
(*               exact, so a test z > t is decided exactly                 *)
(* The floating point of numpy is modelled by exact rational arithmetic,   *)
(* except where a z-score is exactly the limit it is tested against: the   *)
(* float64 score is then the limit or a neighbouring float, and            *)
(* float_rounding holds which.                                             *)
(***************************************************************************)
EXTENDS Integers, Sequences, FiniteSets, TLC

VARIABLES
    transactions,       \* the request body the server is handling (or handled last)
    pc,                 \* "idle", or the endpoint whose handler is about to run
    response,           \* the last response: [endpoint, status, body]
    anomalies,          \* detect_anomalies' local list of candidates before deduplication
    scaler,             \* AnomalyDetectionService.scaler: the fitted state
    isolation_forest,   \* AnomalyDetectionService.isolation_forest: the fitted state
    merchant_profiles,  \* AnomalyDetectionService.merchant_profiles
    rising_payments,    \* detect_rising_payments' local list before the sort and the cut
    payment_analysis,   \* detect_rising_payments' payment_analysis, one per merchant of the loop
    earlier,            \* one earlier call, as its caller remembers it
    quicksort_ties,     \* what the build's quicksort does with rows of equal date
    float_rounding,     \* what the float z-score of an amount exactly at a limit compares as
    calls               \* the detect_anomalies coroutines in flight, with their locals

vars == <<transactions, pc, response, anomalies, scaler, isolation_forest,
          merchant_profiles, rising_payments, payment_analysis, earlier,
          quicksort_ties, float_rounding, calls>>

-----------------------------------------------------------------------------
(* Arithmetic helpers.                                                     *)

Abs(x) == IF x < 0 THEN -x ELSE x

Min(a, b) == IF a <= b THEN a ELSE b

Max(a, b) == IF a >= b THEN a ELSE b

RECURSIVE GCD(_, _)
GCD(a, b) == IF b = 0 THEN a ELSE GCD(b, a % b)

RECURSIVE SumTo(_, _)
\* f[1] + ... + f[n]
SumTo(f, n) == IF n = 0 THEN 0 ELSE f[n] + SumTo(f, n - 1)

RECURSIVE GcdTo(_, _)
GcdTo(f, n) == IF n = 0 THEN 0 ELSE GCD(f[n], GcdTo(f, n - 1))

RECURSIVE ISqrtIter(_, _, _)
\* the largest r in lo..hi-1 with r*r <= n, given lo*lo <= n < hi*hi
ISqrtIter(n, lo, hi) ==
    IF hi - lo <= 1 THEN lo
    ELSE LET mid == (lo + hi) \div 2
         IN  IF mid * mid <= n THEN ISqrtIter(n, mid, hi) ELSE ISqrtIter(n, lo, mid)

ISqrt(n) == ISqrtIter(n, 0, 46341)

RECURSIVE LongDivision(_, _, _, _)
\* long division: `digits' more decimals after the quotient q and remainder r
LongDivision(q, r, den, digits) ==
    IF digits = 0 THEN [q |-> q, exact |-> r = 0]
    ELSE LongDivision(10 * q + (10 * r) \div den, (10 * r) % den, den, digits - 1)

\* num / den to four decimals by long division: q = floor(10000 * num / den),
\* exact = the division left no remainder.
Ratio4(num, den) == LongDivision(num \div den, num % den, den, 4)

\* the bug: the 0/0 of a zero standard deviation compares as a large score
NaNComparesGreater == [q |-> 10000000, exact |-> TRUE]

\* numpy's nan: every comparison with it is False
NaN == [q |-> -1, exact |-> TRUE]

\* The z-scores are float64 quotients of a deviation by a standard deviation
\* (scipy's zscore, pandas' Series.std), each the result of rounded sums,
\* products and a square root.  A score whose exact value is a limit it is
\* compared with comes out as that limit or as a neighbouring float, by the
\* amounts: "exact" compares it as equal, "above" as greater.
FloatOutcomes == {"exact", "above"}

\* the float of a score that is exactly its limit compares as greater
RoundsAbove(z2) == z2.exact /\ float_rounding = "above"

\* the bug: the score is tested with >= against the threshold
ZGreaterOrEqual(z2, t10) ==
    LET t4 == t10 * t10 * 100
    IN  z2.q >= t4

\* z > t10/10, for the squared z held in z2
ZGreater(z2, t10) ==
    LET t4 == t10 * t10 * 100
    IN  z2.q > t4 \/ (z2.q = t4 /\ (~z2.exact \/ RoundsAbove(z2)))

\* the bug: medium is tested against 1.2 times the threshold
ZGreaterOneAndFifth(z2, t10) ==
    LET t4 == 144 * t10 * t10
    IN  z2.q > t4 \/ (z2.q = t4 /\ (~z2.exact \/ RoundsAbove(z2)))

\* z > 1.5 * t10/10
ZGreaterOneAndHalf(z2, t10) ==
    LET t4 == 9 * t10 * t10 * 25
    IN  z2.q > t4 \/ (z2.q = t4 /\ (~z2.exact \/ RoundsAbove(z2)))

\* z in units of 1/1000, rounded down
ZMilli(z2) == ISqrt(z2.q * 100)

-----------------------------------------------------------------------------
(* Sequences.                                                              *)

\* sorted(s, key=...) / DataFrame.sort_values: the stable sort, ascending;
\* keys[i] is the key of s[i]
SortAsc(s, keys) ==
    LET n == Len(s)
        rank == [i \in 1..n |->
                    Cardinality({j \in 1..n : keys[j] < keys[i]})
                  + Cardinality({j \in 1..(i - 1) : keys[j] = keys[i]}) + 1]
    IN  [p \in 1..n |-> s[CHOOSE i \in 1..n : rank[i] = p]]

\* sorted(s, key=..., reverse=True): stable, descending; equal keys keep their order
SortDesc(s, keys) ==
    LET n == Len(s)
        rank == [i \in 1..n |->
                    Cardinality({j \in 1..n : keys[j] > keys[i]})
                  + Cardinality({j \in 1..(i - 1) : keys[j] = keys[i]}) + 1]
    IN  [p \in 1..n |-> s[CHOOSE i \in 1..n : rank[i] = p]]

RECURSIVE Concat(_)
\* the concatenation of a sequence of sequences
Concat(ss) == IF ss = <<>> THEN <<>> ELSE Head(ss) \o Concat(Tail(ss))

\* Series.unique(): the distinct values in order of first appearance
Unique(s) ==
    LET first == SelectSeq([i \in 1..Len(s) |-> i],
                           LAMBDA i : \A j \in 1..(i - 1) : s[j] # s[i])
    IN  [k \in 1..Len(first) |-> s[first[k]]]

-----------------------------------------------------------------------------
(* Timestamps.                                                             *)

\* an ascending sort that is not stable: rows of equal key come out in the
\* reverse of the order they went in
SortAscTiesReversed(s, keys) ==
    LET n == Len(s)
        rank == [i \in 1..n |->
                    Cardinality({j \in 1..n : keys[j] < keys[i]})
                  + Cardinality({j \in (i + 1)..n : keys[j] = keys[i]}) + 1]
    IN  [p \in 1..n |-> s[CHOOSE i \in 1..n : rank[i] = p]]

\* DataFrame.sort_values('date') sorts with kind='quicksort', pandas' default,
\* which numpy does not promise to be stable: the order of rows of equal date
\* is the build's.  Two of the outcomes: the input order, and its reverse.
QuicksortOutcomes == {"kept", "reversed"}

SortByDate(rows) ==
    IF quicksort_ties = "kept"
    THEN SortAsc(rows, [i \in 1..Len(rows) |-> rows[i].date])
    ELSE SortAscTiesReversed(rows, [i \in 1..Len(rows) |-> rows[i].date])

\* a posted_at that pd.to_datetime cannot parse
Unparsable == -1

MinutesPerHour == 60

HoursPerDay == 24

MinutesPerDay == MinutesPerHour * HoursPerDay

\* Timestamp.hour
HourOf(t) == (t \div MinutesPerHour) % HoursPerDay

\* (later - sooner).days
DaysBetween(sooner, later) == (later - sooner) \div MinutesPerDay

-----------------------------------------------------------------------------
(* services/anomaly_service.py                                             *)

\* len(transactions) < 10
MinTransactions == 10

\* _prepare_data: one row per transaction, sorted by date.  A transaction whose
\* posted_at cannot be parsed makes pd.to_datetime raise; PrepareDataRaises
\* tells whether that happens.
PrepareDataRaises(txns) == \E i \in 1..Len(txns) : txns[i].posted_at = Unparsable

PrepareData(txns) ==
    SortByDate([i \in 1..Len(txns) |->
                    [id       |-> txns[i].id,
                     date     |-> txns[i].posted_at,
                     amount   |-> Abs(txns[i].amount),
                     category |-> txns[i].category,
                     merchant |-> txns[i].merchant_name,
                     hour     |-> HourOf(txns[i].posted_at)]])

\* The sums a z-score needs, over the amounts divided by their greatest common
\* divisor g (a z-score does not change when every amount is divided by g):
\* n, S = sum x, Q = sum x^2, D = n*Q - S^2 = n^2 * population variance.
AmountStats(rows) ==
    LET Sums(n, g, S, Q) ==
            [n |-> n, g |-> g, S |-> S, Q |-> Q, D |-> n * Q - S * S,
             mean |-> (g * S) \div n]
        Reduced(n, g, x) ==
            Sums(n, g, SumTo(x, n), SumTo([i \in 1..n |-> x[i] * x[i]], n))
        Divisor(n, a, g0) ==
            Reduced(n, IF g0 = 0 THEN 1 ELSE g0,
                    [i \in 1..n |-> a[i] \div (IF g0 = 0 THEN 1 ELSE g0)])
        Amounts(n, a) == Divisor(n, a, GcdTo(a, n))
    IN  Amounts(Len(rows), [i \in 1..Len(rows) |-> rows[i].amount])

\* np.abs(stats.zscore(amounts))[idx], squared: population standard deviation;
\* nan when the standard deviation is 0
ZScore(st, amount) ==
    IF st.D = 0 THEN NaN
    ELSE LET d == st.n * (amount \div st.g) - st.S IN Ratio4(d * d, st.D)

\* the bug: the population standard deviation in the merchant pass
SampleZScoreOfPopulation(st, amount) ==
    LET d == st.n * (amount \div st.g) - st.S
    IN  Ratio4(d * d, st.D)

\* abs(amount - avg) / std with pandas' Series.std(), the sample standard
\* deviation (n - 1 divisor), squared
SampleZScore(st, amount) ==
    LET d == st.n * (amount \div st.g) - st.S
    IN  Ratio4(d * d * (st.n - 1), st.n * st.D)

\* the bug: high is tested against the threshold, not twice the threshold
CalculateSeverityNoDoubling(z2, t10) ==
    IF ZGreater(z2, t10) THEN "high"
    ELSE IF ZGreaterOneAndHalf(z2, t10) THEN "medium"
    ELSE "low"

\* _calculate_severity(z_score, threshold); thresholds in tenths
CalculateSeverity(z2, t10) ==
    IF ZGreater(z2, 2 * t10) THEN "high"
    ELSE IF ZGreaterOneAndHalf(z2, t10) THEN "medium"
    ELSE "low"

\* min(cap, z_score / divisor) in units of 1/10000
ZConfidence(z2, divisor, cap) == Min(cap, (ZMilli(z2) * 10) \div divisor)

GlobalThreshold == 30

GlobalDivisor == 5

GlobalCap == 9500

\* _detect_statistical_anomalies, the pass over the whole batch
DetectGlobalAnomalies(df) ==
    LET Finding(row, st, z) ==
            [transaction_id |-> row.id,
             anomaly_type   |-> "UNUSUAL_AMOUNT",
             severity       |-> CalculateSeverity(z, GlobalThreshold),
             confidence     |-> ZConfidence(z, GlobalDivisor, GlobalCap),
             description    |-> "amount is unusually high",
             expected_value |-> st.mean,
             actual_value   |-> row.amount,
             z_score        |-> ZMilli(z)]
        Findings(st, hit) ==
            [k \in 1..Len(hit) |-> Finding(hit[k], st, ZScore(st, hit[k].amount))]
        Scored(st) ==
            Findings(st, SelectSeq(df, LAMBDA row :
                                ZGreater(ZScore(st, row.amount), GlobalThreshold)))
    IN  Scored(AmountStats(df))

CategoryMinRows == 3

CategoryThreshold == 25

CategoryDivisor == 4

CategoryCap == 9000

\* _detect_statistical_anomalies, the pass over one category
DetectOneCategory(df, category) ==
    LET Finding(row, st, z) ==
            [transaction_id |-> row.id,
             anomaly_type   |-> "UNUSUAL_AMOUNT",
             severity       |-> CalculateSeverity(z, CategoryThreshold),
             confidence     |-> ZConfidence(z, CategoryDivisor, CategoryCap),
             description    |-> "unusual category spending",
             expected_value |-> st.mean,
             actual_value   |-> row.amount,
             z_score        |-> ZMilli(z)]
        Findings(st, hit) ==
            [k \in 1..Len(hit) |-> Finding(hit[k], st, ZScore(st, hit[k].amount))]
        Scored(category_data, st) ==
            Findings(st, SelectSeq(category_data, LAMBDA row :
                                ZGreater(ZScore(st, row.amount), CategoryThreshold)))
        Category(category_data) ==
            IF Len(category_data) < CategoryMinRows THEN <<>>
            ELSE Scored(category_data, AmountStats(category_data))
    IN  Category(SelectSeq(df, LAMBDA r : r.category = category))

\* _detect_statistical_anomalies, the loop over df['category'].unique()
DetectCategoryAnomalies(df) ==
    LET Each(cats) == Concat([k \in 1..Len(cats) |-> DetectOneCategory(df, cats[k])])
    IN  Each(Unique([i \in 1..Len(df) |-> df[i].category]))

\* _detect_statistical_anomalies
DetectStatisticalAnomalies(df) ==
    DetectGlobalAnomalies(df) \o DetectCategoryAnomalies(df)

MlMinRows == 20

\* 1 / contamination: IsolationForest(contamination=0.1)
ContaminationInverse == 10

\* StandardScaler.fit: the fitted state (mean_, scale_) replaces whatever the
\* scaler held.  The model keeps the state of the amount column: the sums of
\* AmountStats.  (sklearn is a library; of its scaler the model keeps that a
\* fit overwrites the whole fitted state with a function of the rows fitted.)
ScalerFit(df) ==
    LET Fitted(st) == [fitted |-> TRUE, n |-> st.n, g |-> st.g, S |-> st.S]
    IN  Fitted(AmountStats(df))

\* StandardScaler.transform of one row: the distance of the amount from the
\* fitted mean, in units of 1/n of the fitted amounts' common divisor
ScalerTransform(sc, row) == Abs(sc.n * (row.amount \div sc.g) - sc.S)

\* IsolationForest.fit with random_state=42: a deterministic function of the
\* rows fitted, replacing the fitted state.  The stand-in for the forest keeps
\* the offset_ below which contamination of the fitted rows score: the largest
\* distance that is not among the top tenth.
ForestFit(scaled) ==
    LET Offset(n, sorted) ==
            [fitted |-> TRUE, offset |-> sorted[n - (n \div ContaminationInverse)]]
    IN  Offset(Len(scaled), SortAsc(scaled, scaled))

\* IsolationForest.decision_function of one scaled row, in units of 1/1000:
\* negative exactly for the rows predict labels -1
DecisionFunction(forest, v) == (500 * (forest.offset - v)) \div (Max(v, forest.offset) + 1)

\* the bug: the rows are scored before the fit, with what the field held
ScoringStateStale(old, fresh) == IF old.fitted THEN old ELSE fresh

\* fit_transform, fit_predict: the fitted state that scores the rows is the one
\* this call has just fitted, whatever the field held before
ScoringState(old, fresh) == fresh

\* _calculate_severity_from_score
CalculateSeverityFromScore(score) ==
    IF score < -300 THEN "high"
    ELSE IF score < -100 THEN "medium"
    ELSE "low"

MlCap == 9500

\* _detect_ml_anomalies, lines 163 to 183: the rows that the fitted state sc
\* and forest scores below 0, reported with their scores
MlPredict(df, sc, forest) ==
    LET Finding(row, score) ==
            [transaction_id |-> row.id,
             anomaly_type   |-> "UNUSUAL_MERCHANT",
             severity       |-> CalculateSeverityFromScore(score),
             confidence     |-> Min(MlCap, Abs(score) * 20),
             description    |-> "ML detected unusual transaction pattern",
             expected_value |-> 0,
             actual_value   |-> row.amount,
             z_score        |-> score]
        Score(row) == DecisionFunction(forest, ScalerTransform(sc, row))
        Findings(hit) == [k \in 1..Len(hit) |-> Finding(hit[k], Score(hit[k]))]
    IN  Findings(SelectSeq(df, LAMBDA row : Score(row) < 0))

\* _detect_ml_anomalies: [findings, scaler, isolation_forest], the two fields
\* as the call leaves them
DetectMlAnomalies(df, old_scaler, old_forest) ==
    LET FitPredict(sc, new_scaler, new_forest) ==
            [findings |-> MlPredict(df, sc, ScoringState(old_forest, new_forest)),
             scaler |-> new_scaler, isolation_forest |-> new_forest]
        Transform(sc, new_scaler) ==
            FitPredict(sc, new_scaler,
                       ForestFit([i \in 1..Len(df) |-> ScalerTransform(sc, df[i])]))
        FitTransform(new_scaler) ==
            Transform(ScoringState(old_scaler, new_scaler), new_scaler)
    IN  IF Len(df) < MlMinRows
        THEN [findings |-> <<>>, scaler |-> old_scaler, isolation_forest |-> old_forest]
        ELSE FitTransform(ScalerFit(df))

ProfileMinRows == 2

MerchantMinRows == 3

MerchantThreshold == 20

MerchantDivisor == 3

MerchantCap == 8500

\* the bug: the merchant's mean and deviation are taken over the whole batch
MerchantProfileOfBatch(df, merchant) ==
    LET Profile(merchant_data) ==
            [exists |-> Len(merchant_data) >= ProfileMinRows,
             stats  |-> AmountStats(df),
             transaction_count |-> Len(merchant_data)]
    IN  Profile(SelectSeq(df, LAMBDA r : r.merchant = merchant))

\* _detect_merchant_anomalies: the profile of one merchant, built when the
\* merchant has at least 2 rows
MerchantProfile(df, merchant) ==
    LET Profile(merchant_data) ==
            [exists |-> Len(merchant_data) >= ProfileMinRows,
             stats  |-> AmountStats(merchant_data),
             transaction_count |-> Len(merchant_data)]
    IN  Profile(SelectSeq(df, LAMBDA r : r.merchant = merchant))

\* _detect_merchant_anomalies
DetectMerchantAnomalies(df) ==
    LET Finding(row, profile, z) ==
            [transaction_id |-> row.id,
             anomaly_type   |-> "UNUSUAL_AMOUNT",
             severity       |-> CalculateSeverity(z, MerchantThreshold),
             confidence     |-> ZConfidence(z, MerchantDivisor, MerchantCap),
             description    |-> "unusual amount for merchant",
             expected_value |-> profile.stats.mean,
             actual_value   |-> row.amount,
             z_score        |-> ZMilli(z)]
        Flagged(profile, z) ==
            /\ profile.exists
            /\ profile.stats.D > 0
            /\ ZGreater(z, MerchantThreshold)
            /\ profile.transaction_count >= MerchantMinRows
        Check(row, profile) == Flagged(profile, SampleZScore(profile.stats, row.amount))
        Report(row, profile) ==
            Finding(row, profile, SampleZScore(profile.stats, row.amount))
        Findings(hit) ==
            [k \in 1..Len(hit) |-> Report(hit[k], MerchantProfile(df, hit[k].merchant))]
    IN  Findings(SelectSeq(df, LAMBDA row : Check(row, MerchantProfile(df, row.merchant))))

OffHoursFrom == 2

OffHoursTo == 5

TimingConfidence == 7000

\* the bug: the hour 5 is left out
DetectTimingBeforeFive(df) ==
    LET Finding(row) ==
            [transaction_id |-> row.id,
             anomaly_type   |-> "UNUSUAL_TIMING",
             severity       |-> "medium",
             confidence     |-> TimingConfidence,
             description    |-> "transaction at unusual time",
             expected_value |-> 0,
             actual_value   |-> row.hour,
             z_score        |-> 0]
        Findings(hit) == [k \in 1..Len(hit) |-> Finding(hit[k])]
    IN  Findings(SelectSeq(df, LAMBDA row :
                    OffHoursFrom <= row.hour /\ row.hour < OffHoursTo))

\* _detect_temporal_anomalies, the loop over the rows: 2 <= hour <= 5
DetectTimingAnomalies(df) ==
    LET Finding(row) ==
            [transaction_id |-> row.id,
             anomaly_type   |-> "UNUSUAL_TIMING",
             severity       |-> "medium",
             confidence     |-> TimingConfidence,
             description    |-> "transaction at unusual time",
             expected_value |-> 0,
             actual_value   |-> row.hour,
             z_score        |-> 0]
        Findings(hit) == [k \in 1..Len(hit) |-> Finding(hit[k])]
    IN  Findings(SelectSeq(df, LAMBDA row :
                    OffHoursFrom <= row.hour /\ row.hour <= OffHoursTo))

BurstWindow == 5

\* time_span <= 1.0 hours
BurstSpanMinutes == 60

FrequencyConfidence == 8000

\* the bug: the break is missing, every window that qualifies is reported
DetectFrequencyNoBreak(df) ==
    LET Finding(row) ==
            [transaction_id |-> row.id,
             anomaly_type   |-> "UNUSUAL_FREQUENCY",
             severity       |-> "high",
             confidence     |-> FrequencyConfidence,
             description    |-> "high transaction frequency detected",
             expected_value |-> 0,
             actual_value   |-> BurstWindow,
             z_score        |-> 0]
        Window(df_sorted, first) ==
            [k \in 1..BurstWindow |-> Finding(df_sorted[first + k - 1])]
        Each(df_sorted) ==
            Concat([i \in 1..(Len(df_sorted) - (BurstWindow - 1)) |->
                       IF df_sorted[i + BurstWindow - 1].date - df_sorted[i].date
                              <= BurstSpanMinutes
                       THEN Window(df_sorted, i)
                       ELSE <<>>])
    IN  Each(SortByDate(df))

\* the bug: the window reported is one row too long
DetectFrequencySixRows(df) ==
    LET Finding(row) ==
            [transaction_id |-> row.id,
             anomaly_type   |-> "UNUSUAL_FREQUENCY",
             severity       |-> "high",
             confidence     |-> FrequencyConfidence,
             description    |-> "high transaction frequency detected",
             expected_value |-> 0,
             actual_value   |-> BurstWindow,
             z_score        |-> 0]
        Window(df_sorted, first) ==
            [k \in 1..Min(BurstWindow + 1, Len(df_sorted) - first + 1) |->
                Finding(df_sorted[first + k - 1])]
        First(df_sorted, starts) ==
            IF starts = {} THEN <<>>
            ELSE Window(df_sorted, CHOOSE i \in starts : \A j \in starts : i <= j)
        Scan(df_sorted) ==
            First(df_sorted,
                  {i \in 1..(Len(df_sorted) - (BurstWindow - 1)) :
                      df_sorted[i + BurstWindow - 1].date - df_sorted[i].date
                          <= BurstSpanMinutes})
    IN  Scan(SortByDate(df))

\* _detect_temporal_anomalies, the windows of 5 rows: the first window that
\* spans at most an hour is reported, and the scan stops
DetectFrequencyAnomalies(df) ==
    LET Finding(row) ==
            [transaction_id |-> row.id,
             anomaly_type   |-> "UNUSUAL_FREQUENCY",
             severity       |-> "high",
             confidence     |-> FrequencyConfidence,
             description    |-> "high transaction frequency detected",
             expected_value |-> 0,
             actual_value   |-> BurstWindow,
             z_score        |-> 0]
        Window(df_sorted, first) ==
            [k \in 1..BurstWindow |-> Finding(df_sorted[first + k - 1])]
        First(df_sorted, starts) ==
            IF starts = {} THEN <<>>
            ELSE Window(df_sorted, CHOOSE i \in starts : \A j \in starts : i <= j)
        Scan(df_sorted) ==
            First(df_sorted,
                  {i \in 1..(Len(df_sorted) - (BurstWindow - 1)) :
                      df_sorted[i + BurstWindow - 1].date - df_sorted[i].date
                          <= BurstSpanMinutes})
    IN  Scan(SortByDate(df))

\* _detect_temporal_anomalies
DetectTemporalAnomalies(df) == DetectTimingAnomalies(df) \o DetectFrequencyAnomalies(df)

\* the bug: a transaction seen before is tested against the confidence, so a
\* finding is dropped when an earlier one has its confidence
FirstOfEachConfidence(found) ==
    LET Kept(kept) == [k \in 1..Len(kept) |-> found[kept[k]]]
    IN  Kept(SelectSeq([i \in 1..Len(found) |-> i],
                LAMBDA i : \A j \in 1..(i - 1) :
                    /\ found[j].transaction_id # found[i].transaction_id
                    /\ found[j].confidence # found[i].confidence))

\* _deduplicate_anomalies, the loop: the first finding of each transaction_id
FirstOfEachTransaction(found) ==
    LET Kept(kept) == [k \in 1..Len(kept) |-> found[kept[k]]]
    IN  Kept(SelectSeq([i \in 1..Len(found) |-> i],
                LAMBDA i : \A j \in 1..(i - 1) :
                    found[j].transaction_id # found[i].transaction_id))

\* the bug: the findings are not sorted before the first of each id is kept
DedupFirstSeen(found) == FirstOfEachTransaction(found)

\* the bug: sorted ascending and then reversed, which turns the order of
\* findings of equal confidence around
DedupReversedTies(found) ==
    LET Reversed(s) == [p \in 1..Len(s) |-> s[Len(s) + 1 - p]]
    IN  FirstOfEachTransaction(
            Reversed(SortAsc(found, [i \in 1..Len(found) |-> found[i].confidence])))

\* _deduplicate_anomalies: sorted by confidence, highest first, the first
\* finding of each transaction_id is kept
DeduplicateAnomalies(found) ==
    FirstOfEachTransaction(
        SortDesc(found, [i \in 1..Len(found) |-> found[i].confidence]))

\* the bug: reverse=True is missing
SortByConfidenceAscending(found) ==
    SortAsc(found, [i \in 1..Len(found) |-> found[i].confidence])

\* sorted(unique_anomalies, key=lambda x: x.confidence, reverse=True)
SortByConfidence(found) == SortDesc(found, [i \in 1..Len(found) |-> found[i].confidence])

\* detect_anomalies, the candidates: anomalies after the four extend calls
AnomalyCandidates(df, ml) ==
    DetectStatisticalAnomalies(df) \o ml \o DetectMerchantAnomalies(df)
        \o DetectTemporalAnomalies(df)

\* the bug: the minimum is tested against 9
TooFewOffByOne(txns) == Len(txns) < MinTransactions - 1

\* detect_anomalies: if len(transactions) < 10: return []
TooFewTransactions(txns) == Len(txns) < MinTransactions

\* detect_anomalies.  raised: an exception left the method; value: what it
\* returned; candidates: the local list before deduplication; scaler and
\* isolation_forest: the fields as the call leaves them.  Every exception
\* raised inside is caught by the method's except clause, which returns [].
DetectAnomalies(txns, old_scaler, old_forest) ==
    LET Return(ml, found) ==
            [raised |-> FALSE, caught |-> FALSE,
             value |-> SortByConfidence(DeduplicateAnomalies(found)),
             candidates |-> found,
             scaler |-> ml.scaler, isolation_forest |-> ml.isolation_forest]
        Detect(df, ml) == Return(ml, AnomalyCandidates(df, ml.findings))
        Prepared(df) == Detect(df, DetectMlAnomalies(df, old_scaler, old_forest))
    IN  IF TooFewTransactions(txns)
        THEN [raised |-> FALSE, caught |-> FALSE, value |-> <<>>, candidates |-> <<>>,
              scaler |-> old_scaler, isolation_forest |-> old_forest]
        ELSE IF PrepareDataRaises(txns)
        THEN [raised |-> FALSE, caught |-> TRUE, value |-> <<>>, candidates |-> <<>>,
              scaler |-> old_scaler, isolation_forest |-> old_forest]
        ELSE Prepared(PrepareData(txns))

-----------------------------------------------------------------------------
(* services/payment_service.py                                             *)

\* len(transactions) < 10
MinPaymentTransactions == 10

\* the bug: the test amount < 0 is missing
SpendingOfAll(txns) == txns

\* _prepare_data: the spending transactions (amount < 0), sorted by date
SpendingOf(txns) == SelectSeq(txns, LAMBDA t : t.amount < 0)

\* pd.to_datetime raises on a spending transaction whose posted_at cannot be
\* parsed; with no spending transaction at all the frame has no 'merchant'
\* column and groupby('merchant') raises KeyError
PaymentPrepareRaises(txns) ==
    LET Raises(spending) ==
            \/ \E i \in 1..Len(spending) : spending[i].posted_at = Unparsable
            \/ spending = <<>>
    IN  Raises(SpendingOf(txns))

PaymentPrepareData(txns) ==
    LET Frame(spending) ==
            SortByDate([i \in 1..Len(spending) |->
                            [date     |-> spending[i].posted_at,
                             amount   |-> Abs(spending[i].amount),
                             merchant |-> spending[i].merchant_name,
                             category |-> spending[i].category]])
    IN  Frame(SpendingOf(txns))

\* the day gaps between consecutive payments of a group sorted by date
Intervals(group) ==
    [i \in 1..(Len(group) - 1) |-> DaysBetween(group[i].date, group[i + 1].date)]

\* k = number of gaps, G = their sum, V = k * sum of squares - G^2 = k^2 * variance
IntervalStats(group) ==
    LET Sums(k, G, Q) == [k |-> k, G |-> G, V |-> k * Q - G * G]
        Gaps(iv, k) == Sums(k, SumTo(iv, k), SumTo([i \in 1..k |-> iv[i] * iv[i]], k))
    IN  Gaps(Intervals(group), Len(Intervals(group)))

RecurringMinRows == 3

RecurringMinDays == 7

RecurringMaxDays == 90

MonthlyMinDays == 25

MonthlyMaxDays == 35

\* the bug: the test of the monthly gaps is missing
IsRecurringWithoutMonthly(group) ==
    LET Recurring(st) ==
            /\ RecurringMinDays * st.k <= st.G
            /\ st.G <= RecurringMaxDays * st.k
            /\ 100 * st.V < 9 * st.G * st.G
    IN  IF Len(group) < RecurringMinRows THEN FALSE
        ELSE Recurring(IntervalStats(group))

\* _is_recurring_pattern
IsRecurringPattern(group) ==
    LET Monthly(iv) ==
            Cardinality({i \in 1..Len(iv) :
                            MonthlyMinDays <= iv[i] /\ iv[i] <= MonthlyMaxDays})
        Recurring(st, monthly) ==
            \/ /\ RecurringMinDays * st.k <= st.G
               /\ st.G <= RecurringMaxDays * st.k
               /\ 100 * st.V < 9 * st.G * st.G       \* std < avg * 0.3
            \/ 10 * monthly >= 7 * st.k              \* len(monthly) >= len * 0.7
    IN  IF Len(group) < RecurringMinRows THEN FALSE
        ELSE Recurring(IntervalStats(group), Monthly(Intervals(group)))

\* _determine_frequency
DetermineFrequency(group) ==
    LET Label(st) ==
            IF st.G <= 10 * st.k THEN [label |-> "weekly", days |-> 0]
            ELSE IF 25 * st.k <= st.G /\ st.G <= 35 * st.k
                 THEN [label |-> "monthly", days |-> 0]
            ELSE IF 85 * st.k <= st.G /\ st.G <= 95 * st.k
                 THEN [label |-> "quarterly", days |-> 0]
            ELSE IF st.G >= 350 * st.k THEN [label |-> "yearly", days |-> 0]
            ELSE [label |-> "every_N_days", days |-> st.G \div st.k]
    IN  IF Len(group) < 2 THEN [label |-> "unknown", days |-> 0]
        ELSE Label(IntervalStats(group))

\* the bug: the gaps are tested against 0.3 times their mean
HasRecurringIntervals(group) ==
    LET Consistent(st) ==
            IF st.G > 0 THEN 100 * st.V < 9 * st.G * st.G
            ELSE FALSE
    IN  IF Len(group) < 3 THEN FALSE
        ELSE Consistent(IntervalStats(group))

\* _has_consistent_intervals
HasConsistentIntervals(group) ==
    LET Consistent(st) ==
            IF st.G > 0 THEN 100 * st.V < 4 * st.G * st.G   \* std < mean * 0.2
            ELSE FALSE
    IN  IF Len(group) < 3 THEN FALSE
        ELSE Consistent(IntervalStats(group))

\* np.polyfit(x, amounts, 1) over x = 0..n-1: slope = num / den cents a payment
Slope(group) ==
    LET Fit(n, Sx, Sxx, Sy, Sxy) ==
            [num |-> n * Sxy - Sx * Sy, den |-> n * Sxx - Sx * Sx]
        Sums(n) ==
            Fit(n, SumTo([i \in 1..n |-> i - 1], n),
                   SumTo([i \in 1..n |-> (i - 1) * (i - 1)], n),
                   SumTo([i \in 1..n |-> group[i].amount], n),
                   SumTo([i \in 1..n |-> (i - 1) * group[i].amount], n))
    IN  Sums(Len(group))

\* slope <= 0.5 (currency units; 50 cents)
SlopeGateCents == 50

\* the bug: the size of the slope is tested, not the slope
SlopeTooSmallAbs(sl) == Abs(sl.num) <= SlopeGateCents * sl.den

SlopeTooSmall(sl) == sl.num <= SlopeGateCents * sl.den

\* round(a / b) for a >= 0, b > 0: to the nearest integer, a tie to the even one
RoundDiv(a, b) ==
    LET q == a \div b
        r == a % b
    IN  IF 2 * r < b THEN q
        ELSE IF 2 * r > b THEN q + 1
        ELSE IF q % 2 = 0 THEN q ELSE q + 1

BaseConfidence == 5000

PartCap == 2000

ConsistencyBonus == 1000

MinConfidence == 3000

MaxConfidence == 9500

\* the bug: the result is not clamped
CalculateConfidenceUnclamped(group, sl, increase, older) ==
    BaseConfidence + Min(PartCap, 200 * Len(group))
        + Min(PartCap, (10 * sl.num) \div sl.den)
        + Min(PartCap, (10000 * increase) \div older)
        + (IF HasConsistentIntervals(group) THEN ConsistencyBonus ELSE 0)

\* _calculate_confidence; increase = recent - older amount, older > 0
CalculateConfidence(group, sl, increase, older) ==
    LET data_points == Len(group)
        c1 == BaseConfidence + Min(PartCap, 200 * data_points)
        c2 == c1 + Min(PartCap, (10 * sl.num) \div sl.den)
        c3 == c2 + Min(PartCap, (10000 * increase) \div older)
        c4 == c3 + (IF HasConsistentIntervals(group) THEN ConsistencyBonus ELSE 0)
    IN  Min(MaxConfidence, Max(MinConfidence, c4))

\* increase_percentage < 5
MinIncreasePercent == 5

\* the bug: the test of the increase is missing
IncreaseNeverTooSmall(increase, older) == FALSE

\* increase_percentage = ... if older_amount > 0 else 0; increase_percentage < 5
IncreaseTooSmall(increase, older) ==
    older <= 0 \/ 100 * increase < MinIncreasePercent * older

\* None, or the skip of a group: gate names the test that discarded the merchant
NotEmitted(merchant, gate) == [emitted |-> FALSE, gate |-> gate, merchant_name |-> merchant]

\* _analyze_merchant_payments: emitted tells whether a response is returned
\* (not None); increase_percentage is in tenths of a percent, round(., 1)
AnalyzeMerchantPayments(merchant, rows) ==
    LET Response(group, sl, older, recent, increase) ==
            [emitted |-> TRUE, gate |-> "none",
             merchant_name       |-> merchant,
             category            |-> group[Len(group)].category,
             current_amount      |-> recent,
             previous_amount     |-> older,
             increase_percentage |-> RoundDiv(1000 * increase, older),
             increase_amount     |-> increase,
             frequency           |-> DetermineFrequency(group),
             confidence          |-> CalculateConfidence(group, sl, increase, older),
             first_detected      |-> group[1].date \div MinutesPerDay,
             last_payment        |-> group[Len(group)].date \div MinutesPerDay]
        Trend(group, sl, older, recent, increase) ==
            IF SlopeTooSmall(sl) THEN NotEmitted(merchant, "slope")
            ELSE IF IncreaseTooSmall(increase, older)
                 THEN NotEmitted(merchant, "magnitude")
            ELSE Response(group, sl, older, recent, increase)
        Amounts(group, older, recent) ==
            Trend(group, Slope(group), older, recent, recent - older)
        Analyze(group) ==
            IF ~IsRecurringPattern(group) THEN NotEmitted(merchant, "recurring")
            ELSE IF Len(group) < 3 THEN NotEmitted(merchant, "rows")
            ELSE Amounts(group, group[1].amount, group[Len(group)].amount)
    IN  Analyze(SortByDate(rows))

MinGroupRows == 3

TopPayments == 10

\* df.groupby('merchant'): the merchants in sorted order
MerchantsOf(df) ==
    LET Sorted(names) == SortAsc(names, names)
    IN  Sorted(Unique([i \in 1..Len(df) |-> df[i].merchant]))

\* detect_rising_payments, the loop: one analysis per group of >= 3 rows
GroupAnalysis(df, merchant) ==
    LET Group(group) ==
            IF Len(group) < MinGroupRows THEN NotEmitted(merchant, "skipped")
            ELSE AnalyzeMerchantPayments(merchant, group)
    IN  Group(SelectSeq(df, LAMBDA r : r.merchant = merchant))

\* detect_rising_payments, the loop: payment_analysis of every merchant in turn
PaymentAnalyses(df) ==
    LET Each(names) == [k \in 1..Len(names) |-> GroupAnalysis(df, names[k])]
    IN  Each(MerchantsOf(df))

\* detect_rising_payments, rising_payments before the sort
RisingCandidates(analyses) == SelectSeq(analyses, LAMBDA a : a.emitted)

\* the bug: the list is cut without being sorted
TopRisingUnsorted(found) == SubSeq(found, 1, Min(TopPayments, Len(found)))

\* rising_payments.sort(key=increase_percentage, reverse=True); rising_payments[:10]
TopRising(found) ==
    LET Top(sorted) == SubSeq(sorted, 1, Min(TopPayments, Len(sorted)))
    IN  Top(SortDesc(found, [i \in 1..Len(found) |-> found[i].increase_percentage]))

\* the bug: the batch is tested against the minimum of a merchant group
TooFewPaymentsOfGroup(txns) == Len(txns) < MinGroupRows

\* detect_rising_payments: if len(transactions) < 10: return []
TooFewPayments(txns) == Len(txns) < MinPaymentTransactions

\* detect_rising_payments
DetectRisingPayments(txns) ==
    LET Return(analyses, found) ==
            [raised |-> FALSE, caught |-> FALSE, value |-> TopRising(found),
             candidates |-> found, analyses |-> analyses]
        Loop(analyses) == Return(analyses, RisingCandidates(analyses))
    IN  IF TooFewPayments(txns)
        THEN [raised |-> FALSE, caught |-> FALSE, value |-> <<>>, candidates |-> <<>>,
              analyses |-> <<>>]
        ELSE IF PaymentPrepareRaises(txns)
        THEN [raised |-> FALSE, caught |-> TRUE, value |-> <<>>, candidates |-> <<>>,
              analyses |-> <<>>]
        ELSE Loop(PaymentAnalyses(PaymentPrepareData(txns)))

-----------------------------------------------------------------------------
(* The request bodies the model posts.                                     *)

\* 2024-01-15T10:30, the posted_at of tests/test_main.py, in minutes
EpochDay == 19737

StartOfDay == EpochDay * MinutesPerDay

Start == StartOfDay + 10 * MinutesPerHour + 30

\* amounts in cents: the usual one, one close to it, one a hundred times it
BaseAmount == 50 * 100

MidAmount == 55 * 100

BigAmount == 5000 * 100

\* the longest batch below the isolation forest's minimum
MaxLen == 12

\* the batches of MlMinRows .. MlMinRows + LargeExtra rows
LargeExtra == 1

MinLen == MinTransactions - 2

\* shape 1: one transaction a day, three categories in turn
\* shape 2: one transaction every 12 minutes, one category
\* shape 3: one transaction a day, one category
Shapes == 1..3

GapOf(shape) == IF shape = 2 THEN 12 ELSE MinutesPerDay

CategoryOf(shape, i) == IF shape = 1 THEN 1 + (i % 3) ELSE 1

AmountKinds == {"base", "mid", "big"}

TimeKinds == {"day", "night", "bad"}

\* the i-th transaction of a batch; "night" moves it to 03:00 of its day
AnomalyTxn(i, shape, ak, tk) ==
    LET t == Start + (i - 1) * GapOf(shape)
    IN  [id            |-> i,
         posted_at     |-> CASE tk = "day"   -> t
                            [] tk = "night" -> (t \div MinutesPerDay) * MinutesPerDay
                                               + 3 * MinutesPerHour + (i - 1)
                            [] tk = "bad"   -> Unparsable,
         amount        |-> CASE ak = "base" -> -BaseAmount
                            [] ak = "mid"  -> -MidAmount
                            [] ak = "big"  -> -BigAmount,
         category      |-> CategoryOf(shape, i),
         merchant_name |-> 1 + (i % 2)]

\* n transactions of one shape; the one at p is of kinds ak and tk, the second
\* one of kinds ak2 and tk2, the others are usual
AnomalyBatch(n, shape, p, ak, tk, ak2, tk2) ==
    [i \in 1..n |->
        IF i = p THEN AnomalyTxn(i, shape, ak, tk)
        ELSE IF i = 2 THEN AnomalyTxn(i, shape, ak2, tk2)
        ELSE AnomalyTxn(i, shape, "base", "day")]

Positions(n) == {1, (n + 1) \div 2, n}

SmallBatches ==
    UNION {{AnomalyBatch(n, shape, p, ak, tk, k2[1], k2[2]) :
                shape \in Shapes, p \in Positions(n), ak \in AmountKinds, tk \in TimeKinds,
                k2 \in {<<"base", "day">>, <<"mid", "day">>, <<"base", "night">>}} :
           n \in MinLen..MaxLen}

LargeBatches ==
    UNION {{AnomalyBatch(n, shape, p, ak, tk, "base", "day") :
                shape \in Shapes, p \in Positions(n), ak \in AmountKinds,
                tk \in {"day", "night"}} :
           n \in MlMinRows..(MlMinRows + LargeExtra)}

\* One transaction posted offset minutes after the first one of the tests.
TimedTxn(i, offset, amount, merchant, category) ==
    [id            |-> i,
     posted_at     |-> Start + offset,
     amount        |-> amount,
     category      |-> category,
     merchant_name |-> merchant]

\* usual transactions, each at its own merchant, at the given offsets
TimedBatch(offsets) ==
    [i \in 1..Len(offsets) |-> TimedTxn(i, offsets[i], -BaseAmount, 10 + i, 1)]

Days(k) == k * MinutesPerDay

\* the offset of hour:minute on the day-th day after the first transaction,
\* which is posted at 10:30
ClockOffset(day, hour, minute) ==
    Days(day) + (hour * MinutesPerHour + minute) - (Start - StartOfDay)

\* five transactions within 40 minutes and a sixth two hours later
FortyMinutesThenTwoHours == <<0, 10, 20, 30, 40, 160>>

\* The offsets of the requests about bursts:
\*   five within 40 minutes and a sixth two hours later, alone;
\*   the same followed by four transactions on later days;
\*   the same, posted newest first;
\*   a burst that starts at the third transaction, an eighth transaction in
\*     the same hour, and a second burst a day later;
\*   transactions of equal timestamp, posted out of order;
\*   five transactions within exactly 60 minutes, and within 61;
\*   transactions at 01:59, 02:00, 05:59 and 06:00.
TimedOffsets ==
    {FortyMinutesThenTwoHours,
     FortyMinutesThenTwoHours \o <<Days(1), Days(2), Days(3), Days(4)>>,
     <<Days(4), Days(3), Days(2), Days(1), 160, 40, 30, 20, 10, 0>>,
     <<0, Days(1), Days(2), Days(2) + 10, Days(2) + 20, Days(2) + 30, Days(2) + 40,
       Days(2) + 50, Days(3), Days(3) + 1, Days(3) + 2, Days(3) + 3, Days(3) + 4>>,
     <<30, 0, 30, 0, 10, 10, Days(1), Days(1), Days(2), Days(2)>>,
     <<0, 15, 30, 45, 60, Days(1), Days(2), Days(3), Days(4), Days(5)>>,
     <<0, 15, 30, 45, 61, Days(1), Days(2), Days(3), Days(4), Days(5)>>,
     <<0, ClockOffset(1, 1, 59), ClockOffset(1, 2, 0), ClockOffset(1, 5, 59),
       ClockOffset(1, 6, 0), Days(2), Days(3), Days(4), Days(5), Days(6)>>}

TimedBatches == {TimedBatch(offsets) : offsets \in TimedOffsets}

\* The z-score of the only large amount among n - 1 equal ones is the square
\* root of n - 1.  TieLen is the n at which that score, divided as the global
\* pass divides it, is the confidence of a burst finding.
TieZ == (FrequencyConfidence * GlobalDivisor) \div 10000

TieLen == TieZ * TieZ + 1

\* TieLen transactions 12 minutes apart, the first one large, each at its own
\* merchant, no category with enough rows for a category finding
TieBatch ==
    [i \in 1..TieLen |->
        TimedTxn(i, (i - 1) * 12, IF i = 1 THEN -BigAmount ELSE -BaseAmount, 10 + i, i % 3)]

\* Merchant names are codes: 100 * spelling + name.  Spelling 0 is the name in
\* lower case without surrounding blanks ("netflix"), spelling 1 another
\* spelling of it ("Netflix ").
Spelled(name, spelling) == 100 * spelling + name

\* six payments to one merchant, the first one large, then four to the same
\* merchant spelled differently, a day apart
SpellingBatch ==
    [i \in 1..10 |->
        TimedTxn(i, Days(i - 1), IF i = 1 THEN -BigAmount ELSE -BaseAmount,
                 Spelled(1, IF i <= 6 THEN 0 ELSE 1), 1)]

\* MlMinRows payments to one merchant in one category, a day apart, the first
\* one large
OneMerchantBatch ==
    [i \in 1..MlMinRows |->
        TimedTxn(i, Days(i - 1), IF i = 1 THEN -BigAmount ELSE -BaseAmount, 1, 1)]

AnomalyBatches ==
    SmallBatches \cup LargeBatches \cup TimedBatches
        \cup {TieBatch, SpellingBatch, OneMerchantBatch}

\* The payment histories of one merchant: the amounts in cents, oldest first,
\* and the day gaps between them.
\*   1  9.99 on the 15th of six months, then 19.99 (the amounts of tests/test_main.py)
\*   2  weekly, rising                 3  monthly, flat
\*   4  monthly, decreasing            5  two payments, rising
\*   6  rising at irregular intervals  7  monthly, rising by 1% a payment
\*   8  monthly, rising by 0.40 a payment
\*   9  two monthly payments, rising, then a refund (money coming in)
NetflixAmount == 999

GroupShapes ==
    <<[amounts |-> <<NetflixAmount, NetflixAmount, NetflixAmount, NetflixAmount,
                     NetflixAmount, NetflixAmount, NetflixAmount + 1000>>,
       gaps    |-> <<31, 29, 31, 30, 31, 30>>],
      [amounts |-> <<1000, 1100, 1300>>,               gaps |-> <<7, 7>>],
      [amounts |-> <<1500, 1500, 1500, 1500, 1500>>,   gaps |-> <<30, 30, 30, 30>>],
      [amounts |-> <<2000, 1900, 1900, 1500, 1200>>,   gaps |-> <<30, 30, 30, 30>>],
      [amounts |-> <<1000, 2000>>,                     gaps |-> <<30>>],
      [amounts |-> <<1000, 1500, 2500>>,               gaps |-> <<3, 200>>],
      [amounts |-> <<10000, 10100, 10200>>,            gaps |-> <<30, 30>>],
      [amounts |-> <<1000, 1040, 1080>>,               gaps |-> <<30, 30>>],
      [amounts |-> <<1000, 2000, -3000>>,              gaps |-> <<30, 30>>]>>

\* the payments of one merchant, oldest first; ids from first_id on
GroupTxns(merchant, shape, first_id) ==
    LET n == Len(shape.amounts)
        day == [i \in 1..n |-> EpochDay + SumTo(shape.gaps, i - 1)]
    IN  [i \in 1..n |->
            [id            |-> first_id + i - 1,
             posted_at     |-> day[i] * MinutesPerDay + 10 * MinutesPerHour + 30,
             amount        |-> -shape.amounts[i],
             category      |-> 1,
             merchant_name |-> merchant]]

\* money coming in: amount > 0, a merchant of its own
InflowTxns(count, first_id) ==
    [i \in 1..count |->
        [id            |-> first_id + i - 1,
         posted_at     |-> Start + i * MinutesPerDay,
         amount        |-> 2500 * 100,
         category      |-> 2,
         merchant_name |-> 0]]

RECURSIVE GroupsTxns(_, _)
\* the payments of the merchants 1..Len(shapes), merchant m with history shapes[m]
GroupsTxns(shapes, m) ==
    IF m = 0 THEN <<>>
    ELSE LET before == GroupsTxns(shapes, m - 1)
         IN  before \o GroupTxns(m, shapes[m], Len(before) + 1)

\* the most merchants with a history of their own choice in one request
MaxGroups == 2

\* the number of incoming transactions added to a request, when any are
InflowFill == 7

RECURSIVE ShapeLists(_)
\* the sequences of up to n histories
ShapeLists(n) ==
    IF n = 0 THEN {<<>>}
    ELSE LET shorter == ShapeLists(n - 1)
         IN  shorter \cup {Append(l, GroupShapes[k]) :
                              l \in {x \in shorter : Len(x) = n - 1},
                              k \in 1..Len(GroupShapes)}

MixedBatches ==
    {GroupsTxns(l, Len(l)) \o InflowTxns(f, Len(GroupsTxns(l, Len(l))) + 1) :
        l \in ShapeLists(MaxGroups), f \in {0, InflowFill}}

\* the most merchants in a request of many rising merchants
MaxMerchants == 12

\* how the rise of merchant m depends on m: growing, falling, mixed with ties
Patterns == 1..3

RiseOf(pattern, m, count) ==
    CASE pattern = 1 -> 200 * m
      [] pattern = 2 -> 200 * (count + 1 - m)
      [] pattern = 3 -> 200 * (1 + ((5 * m) % 7))

\* count merchants, each paying 10.00 monthly three times, the third payment
\* higher by RiseOf
ManyRising(count, pattern) ==
    GroupsTxns([m \in 1..count |->
                   [amounts |-> <<1000, 1000, 1000 + RiseOf(pattern, m, count)>>,
                    gaps    |-> <<30, 30>>]], count)

ManyBatches == {ManyRising(count, pattern) : count \in 0..MaxMerchants, pattern \in Patterns}

\* More payment histories of one merchant, each posted alone and with incoming
\* transactions that make the request long enough:
\*   1  gaps of 15, 16 and 16 days       2  three monthly gaps and one of 200 days
\*   3  100.00 rising by 3.00, gaps of 15 and 25 days
\*   4  10.00 rising by 0.60, monthly    5  gaps of 7 and 13 days
\*   6  gaps of 90 days                  7  gaps of 91 days
\*   8  20.00 rising by 0.51, gaps of 15 and 25 days
MoreShapes ==
    <<[amounts |-> <<1000, 1100, 1200, 1400>>,        gaps |-> <<15, 16, 16>>],
      [amounts |-> <<1000, 1100, 1200, 1300, 1500>>,  gaps |-> <<30, 30, 30, 200>>],
      [amounts |-> <<10000, 10300, 10600>>,           gaps |-> <<15, 25>>],
      [amounts |-> <<1000, 1060, 1120>>,              gaps |-> <<30, 30>>],
      [amounts |-> <<1000, 1100, 1300>>,              gaps |-> <<7, 13>>],
      [amounts |-> <<1000, 1100, 1300>>,              gaps |-> <<90, 90>>],
      [amounts |-> <<1000, 1100, 1300>>,              gaps |-> <<91, 91>>],
      [amounts |-> <<2000, 2051, 2102>>,              gaps |-> <<15, 25>>]>>

SingleBatches ==
    {GroupTxns(1, MoreShapes[k], 1) \o InflowTxns(f, Len(MoreShapes[k].amounts) + 1) :
        k \in 1..Len(MoreShapes), f \in {0, InflowFill}}

PaymentBatches == MixedBatches \cup ManyBatches \cup SingleBatches

-----------------------------------------------------------------------------
(* main.py: the server.                                                    *)

\* StandardScaler() and IsolationForest(...) as constructed: nothing fitted
Unfitted == [fitted |-> FALSE, n |-> 0, g |-> 1, S |-> 0]

UnfittedForest == [fitted |-> FALSE, offset |-> 0]

NoResponse == [endpoint |-> "none", status |-> 0, logged |-> FALSE, body |-> <<>>]

Nothing == [input |-> <<>>, output |-> <<>>, endpoint |-> "none", set |-> FALSE,
            between |-> FALSE]

\* lifespan has constructed the services: nothing is fitted, no request yet
Constructed ==
    /\ response = NoResponse
    /\ anomalies = <<>>
    /\ rising_payments = <<>>
    /\ payment_analysis = <<>>
    /\ scaler = Unfitted
    /\ isolation_forest = UnfittedForest
    /\ merchant_profiles = <<>>
    /\ earlier = Nothing

\* the services are constructed and a POST of body to an endpoint has arrived
Posted(endpoint, body) ==
    /\ transactions = body
    /\ pc = endpoint
    /\ Constructed

Init ==
    /\ quicksort_ties \in QuicksortOutcomes
    /\ float_rounding \in FloatOutcomes
    /\ calls = <<>>
    /\ \/ \E body \in AnomalyBatches : Posted("anomalies", body)
       \/ \E body \in PaymentBatches : Posted("rising", body)

\* an exception out of the service becomes a 500, a return a 200
StatusOf(result) == IF result.raised THEN 500 ELSE 200

\* the remembered call, with a note of a call on another input handled since
NoteCall(e, txns) ==
    IF e.set /\ txns # e.input THEN [e EXCEPT !.between = TRUE] ELSE e

\* POST /anomalies/detect: main.detect_anomalies calls the service
HandleAnomalies ==
    /\ pc = "anomalies"
    /\ \E result \in {DetectAnomalies(transactions, scaler, isolation_forest)} :
           /\ response' = [endpoint |-> "anomalies", status |-> StatusOf(result),
                           logged |-> result.caught, body |-> result.value]
           /\ anomalies' = result.candidates
           /\ scaler' = result.scaler
           /\ isolation_forest' = result.isolation_forest
    /\ pc' = "idle"
    /\ earlier' = NoteCall(earlier, transactions)
    /\ UNCHANGED <<transactions, merchant_profiles, rising_payments, payment_analysis,
                   quicksort_ties, float_rounding, calls>>

\* POST /payments/rising-detection: main.detect_rising_payments calls the service
HandleRising ==
    /\ pc = "rising"
    /\ \E result \in {DetectRisingPayments(transactions)} :
           /\ response' = [endpoint |-> "rising", status |-> StatusOf(result),
                           logged |-> result.caught, body |-> result.value]
           /\ rising_payments' = result.candidates
           /\ payment_analysis' = result.analyses
    /\ pc' = "idle"
    /\ earlier' = NoteCall(earlier, transactions)
    /\ UNCHANGED <<transactions, anomalies, scaler, isolation_forest, merchant_profiles,
                   quicksort_ties, float_rounding, calls>>

Next == HandleAnomalies \/ HandleRising

\* one request to a freshly started server
Spec == Init /\ [][Next]_vars

-----------------------------------------------------------------------------
(* A server that handles one request after another.                        *)

RepeatAnomalyBatches ==
    {AnomalyBatch(MlMinRows, 3, 1, "big", "day", "base", "day"),
     AnomalyBatch(MlMinRows, 2, MlMinRows, "mid", "night", "mid", "day"),
     AnomalyBatch(MlMinRows + LargeExtra, 1, 1, "mid", "day", "base", "day"),
     AnomalyBatch(MaxLen, 3, 1, "big", "night", "base", "day")}

RepeatPaymentBatches ==
    {GroupsTxns(<<GroupShapes[1], GroupShapes[2]>>, 2),
     GroupsTxns(<<GroupShapes[2], GroupShapes[1]>>, 2)}

InitRepeat ==
    /\ quicksort_ties \in QuicksortOutcomes
    /\ float_rounding \in FloatOutcomes
    /\ calls = <<>>
    /\ transactions = <<>>
    /\ pc = "idle"
    /\ Constructed

\* the next POST arrives; the services keep their fields
Post(endpoint, body) ==
    /\ pc = "idle"
    /\ transactions' = body
    /\ pc' = endpoint
    /\ response' = NoResponse
    /\ anomalies' = <<>>
    /\ rising_payments' = <<>>
    /\ payment_analysis' = <<>>
    /\ UNCHANGED <<scaler, isolation_forest, merchant_profiles, earlier, quicksort_ties, float_rounding, calls>>

PostAnomalies == \E body \in RepeatAnomalyBatches : Post("anomalies", body)

PostRising == \E body \in RepeatPaymentBatches : Post("rising", body)

\* the caller keeps one response, with the request that got it
Remember ==
    /\ pc = "idle"
    /\ response.endpoint # "none"
    /\ ~earlier.set
    /\ earlier' = [input |-> transactions, output |-> response.body,
                   endpoint |-> response.endpoint, set |-> TRUE, between |-> FALSE]
    /\ UNCHANGED <<transactions, pc, response, anomalies, scaler, isolation_forest,
                   merchant_profiles, rising_payments, payment_analysis,
                   quicksort_ties, float_rounding, calls>>

NextRepeat == PostAnomalies \/ PostRising \/ HandleAnomalies \/ HandleRising \/ Remember

SpecRepeat == InitRepeat /\ [][NextRepeat]_vars

-----------------------------------------------------------------------------
(* Two requests to /anomalies/detect in flight at once.  The endpoint and  *)
(* the service method are coroutines of one event loop (run.py starts one  *)
(* worker): a coroutine runs until it awaits, and at an await the loop may *)
(* run the other request.  The model lets the loop switch at every await   *)
(* of detect_anomalies.                                                    *)

Callers == 1..2

ConcurrentPairs ==
    {pair \in RepeatAnomalyBatches \X RepeatAnomalyBatches : pair[1] # pair[2]}

\* the locals of one coroutine: where it is, its DataFrame, its list of
\* candidates, the features it scaled, and what it returned
NewCall(body) ==
    [input |-> body, at |-> "start", df |-> <<>>, found |-> <<>>,
     features_scaled |-> Unfitted, returned |-> <<>>, logged |-> FALSE,
     overlapped |-> FALSE]

InitConcurrent ==
    /\ quicksort_ties \in QuicksortOutcomes
    /\ float_rounding \in FloatOutcomes
    /\ transactions = <<>>
    /\ pc = "idle"
    /\ Constructed
    /\ \E pair \in ConcurrentPairs : calls = [c \in Callers |-> NewCall(pair[c])]

\* a coroutine that has started and has not returned
InFlight(call) == call.at \notin {"start", "done"}

Others(c) == Callers \ {c}

\* the bug: the coroutine awaits between the fit and decision_function
MlSuspendsAfterFit == TRUE

\* _detect_ml_anomalies has no await between fit_transform (159), fit_predict
\* (162) and decision_function (163)
MlSuspends == FALSE

\* what a step of a coroutine leaves alone
OnlyTheCall ==
    UNCHANGED <<transactions, pc, response, anomalies, merchant_profiles,
                rising_payments, payment_analysis, earlier, quicksort_ties,
                float_rounding>>

\* lines 26 to 32: the length test, _prepare_data, up to the first await
Begin(c) ==
    /\ calls[c].at = "start"
    /\ calls' = [calls EXCEPT ![c] =
            IF TooFewTransactions(calls[c].input)
            THEN [@ EXCEPT !.at = "done"]
            ELSE IF PrepareDataRaises(calls[c].input)
            THEN [@ EXCEPT !.at = "done", !.logged = TRUE]
            ELSE [@ EXCEPT !.at = "statistical", !.df = PrepareData(calls[c].input)]]
    /\ UNCHANGED <<scaler, isolation_forest>>
    /\ OnlyTheCall

\* line 35
Statistical(c) ==
    /\ calls[c].at = "statistical"
    /\ calls' = [calls EXCEPT ![c] =
            [@ EXCEPT !.at = "ml", !.found = DetectStatisticalAnomalies(calls[c].df)]]
    /\ UNCHANGED <<scaler, isolation_forest>>
    /\ OnlyTheCall

\* line 39: the fit writes the two fields of the shared service; the scores
\* come from the field isolation_forest as it is when decision_function runs
Ml(c) ==
    /\ calls[c].at \in {"ml", "score"}
    /\ \E ml \in {DetectMlAnomalies(calls[c].df, scaler, isolation_forest)} :
          IF calls[c].at = "score"
          THEN /\ calls' = [calls EXCEPT ![c] =
                      [@ EXCEPT !.at = "merchant",
                                !.found = @ \o MlPredict(calls[c].df,
                                                         calls[c].features_scaled,
                                                         isolation_forest),
                                !.overlapped =
                                    \E o \in Others(c) : InFlight(calls[o])]]
               /\ UNCHANGED <<scaler, isolation_forest>>
          ELSE /\ scaler' = ml.scaler
               /\ isolation_forest' = ml.isolation_forest
               /\ calls' = [calls EXCEPT ![c] =
                      IF MlSuspends /\ Len(calls[c].df) >= MlMinRows
                      THEN [@ EXCEPT !.at = "score", !.features_scaled = ml.scaler]
                      ELSE [@ EXCEPT !.at = "merchant",
                                     !.found = @ \o ml.findings,
                                     !.overlapped =
                                         \E o \in Others(c) : InFlight(calls[o])]]
    /\ OnlyTheCall

\* line 43
Merchant(c) ==
    /\ calls[c].at = "merchant"
    /\ calls' = [calls EXCEPT ![c] =
            [@ EXCEPT !.at = "temporal",
                      !.found = @ \o DetectMerchantAnomalies(calls[c].df)]]
    /\ UNCHANGED <<scaler, isolation_forest>>
    /\ OnlyTheCall

\* lines 47 to 53: the last pass, the deduplication, the sort and the return
Temporal(c) ==
    /\ calls[c].at = "temporal"
    /\ \E found \in {calls[c].found \o DetectTemporalAnomalies(calls[c].df)} :
          calls' = [calls EXCEPT ![c] =
              [@ EXCEPT !.at = "done", !.found = found,
                        !.returned = SortByConfidence(DeduplicateAnomalies(found))]]
    /\ UNCHANGED <<scaler, isolation_forest>>
    /\ OnlyTheCall

\* the event loop runs one of the coroutines up to its next await
NextConcurrent ==
    \/ \E c \in Callers : Begin(c)
    \/ \E c \in Callers : Statistical(c)
    \/ \E c \in Callers : Ml(c)
    \/ \E c \in Callers : Merchant(c)
    \/ \E c \in Callers : Temporal(c)

SpecConcurrent == InitConcurrent /\ [][NextConcurrent]_vars

-----------------------------------------------------------------------------
(* Properties of the two services.                                         *)

AnomaliesDone == pc = "idle" /\ response.endpoint = "anomalies"

RisingDone == pc = "idle" /\ response.endpoint = "rising"

Indices(seq) == 1..Len(seq)

\* C1: with fewer than 10 transactions detect_anomalies returns the empty
\* list and raises nothing, and the endpoint answers 200 with that list.
C1_FewTransactionsEmpty ==
    (AnomaliesDone /\ Len(transactions) < 10)
        => (response.status = 200 /\ response.body = <<>> /\ ~response.logged)

\* a request of 9 transactions, one of them at 03:00, has been answered
C1_Witness ==
    /\ AnomaliesDone
    /\ Len(transactions) = 9
    /\ \E i \in Indices(transactions) :
          /\ transactions[i].posted_at # Unparsable
          /\ HourOf(transactions[i].posted_at) = 3

\* C2: the output of detect_anomalies holds at most one finding per
\* transaction_id; each is one of the candidates the detectors generated, and
\* no candidate of the same transaction_id has a higher confidence.
C2_OnePerTransactionMaxConfidence ==
    AnomaliesDone =>
        /\ \A i, j \in Indices(response.body) :
              i # j => response.body[i].transaction_id # response.body[j].transaction_id
        /\ \A i \in Indices(response.body) :
              /\ \E k \in Indices(anomalies) : anomalies[k] = response.body[i]
              /\ \A k \in Indices(anomalies) :
                    anomalies[k].transaction_id = response.body[i].transaction_id
                        => anomalies[k].confidence <= response.body[i].confidence

\* one transaction has candidates of all four detectors, and an earlier
\* candidate of it has a lower confidence than a later one
C2_Witness ==
    /\ AnomaliesDone
    /\ \E k1, k2 \in Indices(anomalies) :
          /\ k1 < k2
          /\ anomalies[k1].transaction_id = anomalies[k2].transaction_id
          /\ anomalies[k1].confidence < anomalies[k2].confidence
          /\ \A d \in {"amount is unusually high", "ML detected unusual transaction pattern",
                       "unusual amount for merchant", "transaction at unusual time"} :
                \E k \in Indices(anomalies) :
                    /\ anomalies[k].transaction_id = anomalies[k1].transaction_id
                    /\ anomalies[k].description = d

\* C3: the list detect_anomalies returns is non-increasing in confidence.
C3_SortedByConfidence ==
    AnomaliesDone =>
        \A i \in 1..(Len(response.body) - 1) :
            response.body[i].confidence >= response.body[i + 1].confidence

\* the answer holds at least three findings of at least two confidences
C3_Witness ==
    /\ AnomaliesDone
    /\ Len(response.body) >= 3
    /\ response.body[1].confidence > response.body[Len(response.body)].confidence

\* C4: the list detect_rising_payments returns is non-increasing in
\* increase_percentage and has at most 10 findings; when more than 10
\* merchants qualify it has 10 of them, and no merchant left out has a higher
\* increase_percentage than one returned.
C4_TopTenByIncrease ==
    RisingDone =>
        /\ Len(response.body) <= 10
        /\ \A i \in 1..(Len(response.body) - 1) :
              response.body[i].increase_percentage >= response.body[i + 1].increase_percentage
        /\ \A i \in Indices(response.body) :
              \E k \in Indices(rising_payments) : rising_payments[k] = response.body[i]
        /\ Len(rising_payments) > 10 =>
              /\ Len(response.body) = 10
              /\ \A k \in Indices(rising_payments) :
                    (\A i \in Indices(response.body) : response.body[i] # rising_payments[k])
                        => \A i \in Indices(response.body) :
                              response.body[i].increase_percentage
                                  >= rising_payments[k].increase_percentage

\* more than 10 merchants qualify, of several increases, the first one to
\* qualify is left out
C4_Witness ==
    /\ RisingDone
    /\ Len(rising_payments) > 10
    /\ response.body[1].increase_percentage > response.body[10].increase_percentage
    /\ \A i \in Indices(response.body) : response.body[i] # rising_payments[1]

\* the spending transactions of a merchant in a request
SpendingRows(txns, merchant) ==
    SelectSeq(txns, LAMBDA t : t.merchant_name = merchant /\ t.amount < 0)

\* C5: a merchant with fewer than 3 spending transactions of that exact
\* merchant name has no finding in the output of detect_rising_payments.
C5_SmallGroupNoFinding ==
    RisingDone =>
        \A i \in Indices(response.body) :
            Len(SpendingRows(transactions, response.body[i].merchant_name)) >= 3

\* a request of at least 10 transactions was analysed, it has a merchant with
\* two rising payments and a refund, and another merchant has a finding
C5_Witness ==
    /\ RisingDone
    /\ response.body # <<>>
    /\ \E k \in Indices(transactions) :
          /\ Len(SpendingRows(transactions, transactions[k].merchant_name)) = 2
          /\ transactions[k].amount > 0

\* C6: a second call with the same input on the same service instance, right
\* after the first or after calls with other inputs, returns what the first
\* returned, whatever scaler and isolation_forest the earlier calls left.
C6_SameInputSameOutput ==
    (/\ pc = "idle"
     /\ earlier.set
     /\ response.endpoint = earlier.endpoint
     /\ transactions = earlier.input)
        => response.body = earlier.output

\* the same request was answered again after a request of another size had
\* refitted the scaler and the forest, and the answer has a finding of the forest
C6_Witness ==
    /\ pc = "idle"
    /\ earlier.set
    /\ earlier.between
    /\ response.endpoint = "anomalies"
    /\ earlier.endpoint = "anomalies"
    /\ transactions = earlier.input
    /\ isolation_forest.fitted
    /\ \E i \in Indices(response.body) :
          response.body[i].description = "ML detected unusual transaction pattern"

\* the same payments request was answered again after an anomalies request
C6_WitnessRising ==
    /\ pc = "idle"
    /\ earlier.set
    /\ earlier.between
    /\ response.endpoint = "rising"
    /\ earlier.endpoint = "rising"
    /\ transactions = earlier.input
    /\ response.body # <<>>
    /\ isolation_forest.fitted

HasUnparsable(txns) == \E i \in Indices(txns) : txns[i].posted_at = Unparsable

\* C7 as the specification states it: a request of at least 10 transactions,
\* one of them with an unparsable timestamp, makes the service fail, the error
\* reaches the caller and the endpoint answers 500; no list is returned.
C7_UnparsablePropagates ==
    (/\ pc = "idle"
     /\ response.endpoint # "none"
     /\ Len(transactions) >= MinTransactions
     /\ HasUnparsable(transactions))
        => response.status = 500

\* what the code does instead: the list is empty and the answer is 200; with
\* 10 transactions or more the error is logged
C7_UnparsableSwallowed ==
    (pc = "idle" /\ response.endpoint # "none" /\ HasUnparsable(transactions))
        => /\ response.status = 200
           /\ (response.endpoint = "anomalies" => response.body = <<>>)
           /\ (response.endpoint = "anomalies" /\ Len(transactions) >= MinTransactions
                  => response.logged)

\* 12 parsable transactions, one of -5000.00 and eleven within 5.00 of -50.00
TwelveWithOneBig(txns, big) ==
    /\ Len(txns) = 12
    /\ ~HasUnparsable(txns)
    /\ big \in Indices(txns)
    /\ txns[big].amount = -BigAmount
    /\ \A i \in Indices(txns) \ {big} : Abs(txns[i].amount + BaseAmount) <= 500

\* the candidate the global z-score pass generated for a transaction
GlobalFinding(a, id) ==
    /\ a.transaction_id = id
    /\ a.anomaly_type = "UNUSUAL_AMOUNT"
    /\ a.description = "amount is unusually high"

\* C8 as the specification states it: in the scenario the global pass flags
\* the -5000 transaction as UNUSUAL_AMOUNT with severity "high".
C8_FlaggedHigh ==
    AnomaliesDone =>
        \A big \in Indices(transactions) :
            TwelveWithOneBig(transactions, big) =>
                \E k \in Indices(anomalies) :
                    /\ GlobalFinding(anomalies[k], transactions[big].id)
                    /\ anomalies[k].severity = "high"

\* C8, amended: in the scenario the global pass flags the -5000 transaction
\* as UNUSUAL_AMOUNT once, and with severity "low": its z-score is at most
\* sqrt(11), above the threshold 3 and below 4.5 and 6.
C8_FlaggedLow ==
    AnomaliesDone =>
        \A big \in Indices(transactions) :
            TwelveWithOneBig(transactions, big) =>
                /\ \E k \in Indices(anomalies) :
                      GlobalFinding(anomalies[k], transactions[big].id)
                /\ \A k \in Indices(anomalies) :
                      GlobalFinding(anomalies[k], transactions[big].id)
                          => /\ anomalies[k].severity = "low"
                             /\ anomalies[k].z_score > 3000
                             /\ anomalies[k].z_score < 3317

\* the scenario has been answered, the eleven are not all the same amount
C8_Witness ==
    /\ AnomaliesDone
    /\ \E big \in Indices(transactions) :
          /\ TwelveWithOneBig(transactions, big)
          /\ \E i \in Indices(transactions) : transactions[i].amount = -MidAmount
    /\ response.body # <<>>

\* the spending transactions of a merchant, oldest first
History(txns, merchant) ==
    LET rows == SpendingRows(txns, merchant)
    IN  SortAsc(rows, [i \in 1..Len(rows) |-> rows[i].posted_at])

\* 9.99 six times a month apart and then 19.99
NineNinetyNineThenDouble(txns, merchant) ==
    LET h == History(txns, merchant)
    IN  /\ Len(h) = 7
        /\ \A i \in 1..6 : h[i].amount = -NetflixAmount
        /\ h[7].amount = -(NetflixAmount + 1000)
        /\ \A i \in 1..7 : h[i].posted_at # Unparsable
        /\ \A i \in 1..6 : DaysBetween(h[i].posted_at, h[i + 1].posted_at) \in 28..31

MerchantNames(txns) == {txns[i].merchant_name : i \in Indices(txns)}

\* C9 as the specification states it: the merchant of the scenario has a
\* finding in the output with increase_percentage 100, frequency "monthly"
\* and confidence at most 0.95.
C9_DoubledIsHundred ==
    RisingDone =>
        \A m \in MerchantNames(transactions) :
            NineNinetyNineThenDouble(transactions, m) =>
                \E i \in Indices(response.body) :
                    /\ response.body[i].merchant_name = m
                    /\ response.body[i].increase_percentage = 1000
                    /\ response.body[i].frequency.label = "monthly"
                    /\ response.body[i].confidence <= 9500

\* C9, amended: in a request of at least 10 transactions whose spending
\* timestamps parse, the merchant of the scenario qualifies with
\* increase_percentage 100.1, frequency "monthly" and confidence 0.95, and
\* the finding is returned when at most 10 merchants qualify.
C9_DoubledIsHundredPointOne ==
    (/\ RisingDone
     /\ Len(transactions) >= MinPaymentTransactions
     /\ ~HasUnparsable(SpendingOf(transactions)))
        => \A m \in MerchantNames(transactions) :
              NineNinetyNineThenDouble(transactions, m) =>
                  /\ \E k \in Indices(rising_payments) :
                        /\ rising_payments[k].merchant_name = m
                        /\ rising_payments[k].increase_percentage = 1001
                        /\ rising_payments[k].frequency.label = "monthly"
                        /\ rising_payments[k].confidence = 9500
                        /\ Len(rising_payments) <= TopPayments
                              => \E i \in Indices(response.body) :
                                    response.body[i] = rising_payments[k]
                  /\ \A k \in Indices(payment_analysis) :
                        payment_analysis[k].merchant_name = m
                            => payment_analysis[k].emitted

\* the merchant of the scenario and a second merchant have been analysed
C9_Witness ==
    /\ RisingDone
    /\ Len(response.body) = 2
    /\ \E m \in MerchantNames(transactions) :
          /\ NineNinetyNineThenDouble(transactions, m)
          /\ response.body[1].merchant_name = m

\* the amounts of a merchant never rise from one payment to the next
NeverRising(txns, merchant) ==
    LET h == History(txns, merchant)
    IN  \A i \in 1..(Len(h) - 1) : Abs(h[i + 1].amount) <= Abs(h[i].amount)

\* C10: a merchant whose spending amounts, in date order, never rise has no
\* finding in the output of detect_rising_payments: when its slope is
\* computed it is not above 0.5 and the merchant is discarded there, if not
\* before.
C10_NeverRisingNeverReported ==
    RisingDone =>
        \A m \in MerchantNames(transactions) :
            (SpendingRows(transactions, m) # <<>> /\ NeverRising(transactions, m)) =>
                /\ \A i \in Indices(response.body) : response.body[i].merchant_name # m
                /\ \A k \in Indices(rising_payments) : rising_payments[k].merchant_name # m
                /\ \A k \in Indices(payment_analysis) :
                      payment_analysis[k].merchant_name = m
                          => payment_analysis[k].gate \in {"skipped", "recurring", "rows", "slope"}

\* a merchant of five monthly payments that fall was discarded at the slope,
\* and another merchant of the request has a finding
C10_Witness ==
    /\ RisingDone
    /\ response.body # <<>>
    /\ \E m \in MerchantNames(transactions) :
          /\ Len(SpendingRows(transactions, m)) = 5
          /\ NeverRising(transactions, m)
          /\ History(transactions, m)[5].amount # History(transactions, m)[1].amount
          /\ \E k \in Indices(payment_analysis) :
                /\ payment_analysis[k].merchant_name = m
                /\ payment_analysis[k].gate = "slope"

-----------------------------------------------------------------------------
(* Bursts.                                                                 *)

\* the rows posted before row i
Before(txns, i) == {j \in Indices(txns) : txns[j].posted_at < txns[i].posted_at}

\* the five earliest transactions
EarliestFive(txns) == {i \in Indices(txns) : Cardinality(Before(txns, i)) < 5}

\* the transactions that follow the five earliest
Sixth(txns) == {i \in Indices(txns) : Cardinality(Before(txns, i)) = 5}

\* five transactions at different merchants within 40 minutes, and the next
\* one 2 hours or more after the last of them
FiveWithinFortyMinutes(txns) ==
    /\ Len(txns) >= 6
    /\ ~HasUnparsable(txns)
    /\ Cardinality(EarliestFive(txns)) = 5
    /\ Cardinality(Sixth(txns)) = 1
    /\ \A i, j \in EarliestFive(txns) :
          /\ txns[i].posted_at - txns[j].posted_at <= 40
          /\ i # j => txns[i].merchant_name # txns[j].merchant_name
    /\ \A i \in EarliestFive(txns), s \in Sixth(txns) :
          txns[s].posted_at - txns[i].posted_at >= 2 * MinutesPerHour

IsBurstFinding(f) ==
    /\ f.anomaly_type = "UNUSUAL_FREQUENCY"
    /\ f.severity = "high"
    /\ f.confidence = 8000

IsFrequencyFinding(f) == f.anomaly_type = "UNUSUAL_FREQUENCY"

\* the transactions the findings of a list are about
IdsIn(findings) == {findings[k].transaction_id : k \in Indices(findings)}

BurstFindings(findings) == SelectSeq(findings, IsBurstFinding)

FrequencyFindings(findings) == SelectSeq(findings, IsFrequencyFinding)

IdsOf(txns, rows) == {txns[i].id : i \in rows}

-----------------------------------------------------------------------------
(* Degenerate requests.                                                    *)

\* C12: with fewer than 10 records detect_rising_payments returns the empty
\* list and raises nothing; the endpoint answers 200 with that list.
C12_FewPaymentsEmpty ==
    (RisingDone /\ Len(transactions) < 10)
        => (response.status = 200 /\ response.body = <<>> /\ ~response.logged)

\* the seven payments of the merchant that doubles its price, alone, have
\* been answered
C12_Witness ==
    /\ RisingDone
    /\ Len(transactions) = 7
    /\ NineNinetyNineThenDouble(transactions, 1)

AllEqualAmounts(rows) ==
    \A i, j \in Indices(rows) : Abs(rows[i].amount) = Abs(rows[j].amount)

RowsOfCategory(txns, category) == SelectSeq(txns, LAMBDA t : t.category = category)

RowsOfMerchant(txns, merchant) == SelectSeq(txns, LAMBDA t : t.merchant_name = merchant)

\* the candidates of one pass, told by their description, about the given rows
CandidatesAbout(description, rows) ==
    {k \in Indices(anomalies) :
        /\ anomalies[k].description = description
        /\ \E i \in Indices(rows) : rows[i].id = anomalies[k].transaction_id}

OffHours(t) == 2 <= HourOf(t.posted_at) /\ HourOf(t.posted_at) <= 5

\* C13: when the amounts of the batch, of a category or of a merchant are all
\* equal (standard deviation 0), that computation produces no finding; the
\* call does not fail and no finding carries a score that is not a number
\* (every amount finding has a z-score above its threshold, 2.0 or more); the
\* other passes still report: every transaction between 02:00 and 05:59 has a
\* timing candidate and a finding in the output.
C13_ZeroDeviationNoFinding ==
    (AnomaliesDone /\ Len(transactions) >= 10 /\ ~HasUnparsable(transactions))
        => /\ response.status = 200
           /\ ~response.logged
           /\ AllEqualAmounts(transactions)
                 => CandidatesAbout("amount is unusually high", transactions) = {}
           /\ \A i \in Indices(transactions) :
                 AllEqualAmounts(RowsOfCategory(transactions, transactions[i].category))
                     => CandidatesAbout("unusual category spending",
                            RowsOfCategory(transactions, transactions[i].category)) = {}
           /\ \A i \in Indices(transactions) :
                 AllEqualAmounts(RowsOfMerchant(transactions, transactions[i].merchant_name))
                     => CandidatesAbout("unusual amount for merchant",
                            RowsOfMerchant(transactions, transactions[i].merchant_name)) = {}
           /\ \A k \in Indices(anomalies) :
                 anomalies[k].anomaly_type = "UNUSUAL_AMOUNT"
                     => anomalies[k].z_score >= 2000
           /\ \A i \in Indices(transactions) :
                 OffHours(transactions[i])
                     => /\ \E k \in Indices(anomalies) :
                              /\ anomalies[k].transaction_id = transactions[i].id
                              /\ anomalies[k].anomaly_type = "UNUSUAL_TIMING"
                        /\ transactions[i].id \in IdsIn(response.body)

\* a batch of equal amounts, one of them paid at night, has been answered
\* with the timing finding
C13_Witness ==
    /\ AnomaliesDone
    /\ Len(transactions) >= 10
    /\ AllEqualAmounts(transactions)
    /\ \E i \in Indices(transactions) : OffHours(transactions[i])
    /\ Len(response.body) = 1
    /\ response.body[1].anomaly_type = "UNUSUAL_TIMING"

-----------------------------------------------------------------------------
(* Concurrent calls.                                                       *)

\* what detect_anomalies returns for a request when no other call is made
Alone(body) == DetectAnomalies(body, Unfitted, UnfittedForest).value

HasMlFinding(findings) ==
    \E k \in Indices(findings) : findings[k].anomaly_type = "UNUSUAL_MERCHANT"

\* C14: two calls of detect_anomalies in flight on the one service, with
\* different requests, each return what they would return alone, however the
\* event loop interleaves them: the scores of a call come from its own fit.
C14_ConcurrentCallsAsAlone ==
    \A c \in DOMAIN calls :
        calls[c].at = "done" => calls[c].returned = Alone(calls[c].input)

\* both calls have returned ML findings, and each ran its ML pass while the
\* other call was in flight
C14_Witness ==
    /\ DOMAIN calls = Callers
    /\ calls[1].input # calls[2].input
    /\ \A c \in Callers :
          /\ calls[c].at = "done"
          /\ calls[c].overlapped
          /\ HasMlFinding(calls[c].returned)
    /\ calls[1].returned # calls[2].returned

-----------------------------------------------------------------------------
(* The normalizer and the aggregator.                                      *)

PositionOf(txns, id) == CHOOSE i \in Indices(txns) : txns[i].id = id

\* df holds one row per transaction, ascending by date, rows of equal date in
\* the order of the request
StableAscending(txns, df) ==
    /\ Len(df) = Len(txns)
    /\ \A i \in Indices(txns) :
          Cardinality({p \in Indices(df) : df[p].id = txns[i].id}) = 1
    /\ \A p, q \in Indices(df) :
          p < q => /\ df[p].date <= df[q].date
                   /\ df[p].date = df[q].date
                         => PositionOf(txns, df[p].id) < PositionOf(txns, df[q].id)

\* C15 as stated: _prepare_data produces exactly one record per transaction,
\* ascending by timestamp, and records of equal timestamp keep the order they
\* had in the input.
C15_StableSortByDate ==
    (AnomaliesDone /\ Len(transactions) >= 10 /\ ~HasUnparsable(transactions))
        => StableAscending(transactions, PrepareData(transactions))

\* the place of a finding's detector in the order the detectors are run
DetectorRank(f) ==
    CASE f.description = "amount is unusually high"                -> 1
      [] f.description = "unusual category spending"               -> 2
      [] f.description = "ML detected unusual transaction pattern" -> 3
      [] f.description = "unusual amount for merchant"             -> 4
      [] f.description = "transaction at unusual time"             -> 5
      [] f.description = "high transaction frequency detected"     -> 6

\* the candidates of the transaction of finding f that have its confidence
TiedWith(f) ==
    {k \in Indices(anomalies) :
        /\ anomalies[k].transaction_id = f.transaction_id
        /\ anomalies[k].confidence = f.confidence}

\* C16: the candidates are listed in detector order (global, category, ML,
\* merchant, timing, burst), and when several candidates of a transaction
\* share its highest confidence the output keeps the first of them in that
\* order.
C16_TieKeepsFirstDetector ==
    AnomaliesDone =>
        /\ \A k, l \in Indices(anomalies) :
              k < l => DetectorRank(anomalies[k]) <= DetectorRank(anomalies[l])
        /\ \A i \in Indices(response.body) :
              \A k \in TiedWith(response.body[i]) :
                  /\ DetectorRank(response.body[i]) <= DetectorRank(anomalies[k])
                  /\ \E first \in TiedWith(response.body[i]) :
                        /\ first <= k
                        /\ anomalies[first] = response.body[i]

\* a transaction has a global candidate and a burst candidate of the same
\* confidence, its highest, and the output holds the global one
C16_Witness ==
    /\ AnomaliesDone
    /\ \E i \in Indices(response.body) :
          /\ DetectorRank(response.body[i]) = 1
          /\ \E k \in TiedWith(response.body[i]) : DetectorRank(anomalies[k]) = 6

\* C17: the transactions of the output are exactly the transactions that
\* have at least one candidate, and each of them is a transaction of the
\* request.
C17_OutputIdsAreCandidateIds ==
    AnomaliesDone =>
        /\ IdsIn(response.body) = IdsIn(anomalies)
        /\ IdsIn(response.body) \subseteq IdsOf(transactions, Indices(transactions))

\* some transactions of the request have candidates, one of them several,
\* and some have none
C17_Witness ==
    /\ AnomaliesDone
    /\ Len(anomalies) > Len(response.body)
    /\ Len(response.body) >= 2
    /\ Len(response.body) < Len(transactions)

-----------------------------------------------------------------------------
(* The burst rule.                                                         *)

\* the timestamps of a request in ascending order
SortedDates(txns) ==
    SortAsc([i \in Indices(txns) |-> txns[i].posted_at],
            [i \in Indices(txns) |-> txns[i].posted_at])

\* where a window of 5 consecutive timestamps spans at most one hour
QualifyingWindows(dates) ==
    {i \in 1..(Len(dates) - 4) : dates[i + 4] - dates[i] <= 60}

Earliest(starts) == CHOOSE i \in starts : \A j \in starts : i <= j

DateOf(txns, id) == txns[PositionOf(txns, id)].posted_at

\* found is what the burst rule reports for a request with these sorted
\* timestamps: nothing when no window qualifies, else one finding for each of
\* the 5 records of the earliest qualifying window, and no more
FirstWindowOnly(txns, dates, starts, found) ==
    IF starts = {}
    THEN found = <<>>
    ELSE /\ Len(found) = 5
         /\ \A k \in Indices(found) :
               /\ IsBurstFinding(found[k])
               /\ DateOf(txns, found[k].transaction_id) = dates[Earliest(starts) + k - 1]
         /\ \A k, l \in Indices(found) :
               k # l => found[k].transaction_id # found[l].transaction_id

\* C18: the burst rule scans the windows of 5 consecutive records in time
\* order from the earliest; at the first window spanning at most an hour it
\* emits an UNUSUAL_FREQUENCY candidate (high, 0.80) for each of its 5 records
\* and stops.  A call has 0 or 5 such candidates; records of later qualifying
\* windows, a 6th record of the same hour included, get none.
C18_FirstBurstWindowOnly ==
    (AnomaliesDone /\ Len(transactions) >= 10 /\ ~HasUnparsable(transactions))
        => /\ Len(FrequencyFindings(anomalies)) \in {0, 5}
           /\ FirstWindowOnly(transactions, SortedDates(transactions),
                              QualifyingWindows(SortedDates(transactions)),
                              FrequencyFindings(anomalies))

\* the first qualifying window is not the first window, a record follows it
\* within the same hour, a second burst comes later, and 5 records are
\* flagged
C18_Witness ==
    /\ AnomaliesDone
    /\ ~HasUnparsable(transactions)
    /\ Len(FrequencyFindings(anomalies)) = 5
    /\ \E i, j, l \in QualifyingWindows(SortedDates(transactions)) :
          /\ 1 < i
          /\ j = i + 1
          /\ l >= i + 5

-----------------------------------------------------------------------------
(* Merchant profiles.                                                      *)

\* the name in lower case and without surrounding blanks: spelling 0 of it
LowerTrim(name) == name % 100

SameProfile(p, q) ==
    /\ p.exists = q.exists
    /\ p.transaction_count = q.transaction_count
    /\ p.stats.mean = q.stats.mean
    /\ IF p.stats.g = q.stats.g
       THEN p.stats.D = q.stats.D
       ELSE p.stats.g * p.stats.g * p.stats.D = q.stats.g * q.stats.g * q.stats.D

\* C19 as stated: two records whose merchant names differ only in letter case
\* or surrounding blanks are counted in the same merchant profile: the same
\* count, mean and standard deviation.
C19_ProfilesKeyedByLowerTrim ==
    (AnomaliesDone /\ Len(transactions) >= 10 /\ ~HasUnparsable(transactions))
        => \A i, j \in Indices(transactions) :
              LowerTrim(transactions[i].merchant_name)
                    = LowerTrim(transactions[j].merchant_name)
                  => SameProfile(
                         MerchantProfile(PrepareData(transactions),
                                         transactions[i].merchant_name),
                         MerchantProfile(PrepareData(transactions),
                                         transactions[j].merchant_name))

-----------------------------------------------------------------------------
(* The global pass.                                                        *)

\* the amounts of the requests are multiples of 5.00
AmountUnit == BaseAmount \div 10

\* |amount| of the transactions, in units of 5.00
UnitAmounts(txns) == [i \in Indices(txns) |-> Abs(txns[i].amount) \div AmountUnit]

SquaresOf(x) == [i \in DOMAIN x |-> x[i] * x[i]]

\* n * |x[i] - mean|
Deviation(x, i) == Abs(Len(x) * x[i] - SumTo(x, Len(x)))

\* n^2 times the population variance
Spread(x) == Len(x) * SumTo(SquaresOf(x), Len(x)) - SumTo(x, Len(x)) * SumTo(x, Len(x))

\* z > 3.0 for the population standard deviation, z as the code's float:
\* dev / sqrt(spread) > 3, or exactly 3 and rounded above it
AboveThree(dev, spread) ==
    /\ spread > 0
    /\ \/ dev * dev > 9 * spread
       \/ dev * dev = 9 * spread /\ float_rounding = "above"

\* min(0.95, z / 5.0) in units of 1/10000, z to three decimals
FifthOfZ(dev, spread) == Min(9500, (ZMilli(Ratio4(dev * dev, spread)) * 10) \div 5)

GlobalCandidates == SelectSeq(anomalies, LAMBDA f : f.description = "amount is unusually high")

\* the candidates are for exactly the records with z > 3.0, one each, with
\* the confidence and the expected value of the claim
GlobalPassIs(txns, x, found) ==
    /\ IdsIn(found) = {txns[i].id : i \in {i \in Indices(txns) :
                                              AboveThree(Deviation(x, i), Spread(x))}}
    /\ Len(found) = Cardinality(IdsIn(found))
    /\ \A k \in Indices(found) :
          /\ found[k].anomaly_type = "UNUSUAL_AMOUNT"
          /\ found[k].confidence
                = FifthOfZ(Deviation(x, PositionOf(txns, found[k].transaction_id)), Spread(x))
          /\ found[k].expected_value
                = (AmountUnit * SumTo(x, Len(x))) \div Len(x)

-----------------------------------------------------------------------------
(* Severity of the z-score findings.                                       *)

AbsAmounts(rows) == [i \in Indices(rows) |-> Abs(rows[i].amount)]

DividedBy(x, g) == [i \in DOMAIN x |-> x[i] \div (IF g = 0 THEN 1 ELSE g)]

\* |amount| of the rows, divided by their greatest common divisor
Reduced(rows) == DividedBy(AbsAmounts(rows), GcdTo(AbsAmounts(rows), Len(rows)))

\* 16 * num / den, rounded down, and whether something was cut off
Sixteenths(q, r, den) == [whole |-> 16 * q + ((16 * r) \div den), more |-> (16 * r) % den > 0]

ExceedsOf(s, c16) == s.whole > c16 \/ (s.whole = c16 /\ s.more)

\* num / den > c16 / 16
Exceeds(num, den, c16) ==
    den > 0 /\ ExceedsOf(Sixteenths(num \div den, num % den, den), c16)

\* the severity of the claim for z * z = num / den and a threshold in tenths:
\* (2 t)^2 = 64 t10^2 / 1600 and (1.5 t)^2 = 36 t10^2 / 1600
SeverityByRatio(num, den, t10) ==
    IF Exceeds(num, den, (64 * t10 * t10) \div 100) THEN "high"
    ELSE IF Exceeds(num, den, (36 * t10 * t10) \div 100) THEN "medium"
    ELSE "low"

\* population standard deviation: z * z = dev^2 / spread
PopulationSeverity(x, i, t10) ==
    SeverityByRatio(Deviation(x, i) * Deviation(x, i), Spread(x), t10)

\* sample standard deviation: z * z = dev^2 * (n - 1) / (n * spread)
SampleSeverity(x, i, t10) ==
    SeverityByRatio(Deviation(x, i) * Deviation(x, i) * (Len(x) - 1), Len(x) * Spread(x), t10)

TxnOf(f) == transactions[PositionOf(transactions, f.transaction_id)]

\* the severity the claim gives finding f, by the pass that produced it
ClaimedSeverity(f, rows, sample, t10) ==
    IF sample
    THEN SampleSeverity(Reduced(rows), PositionOf(rows, f.transaction_id), t10)
    ELSE PopulationSeverity(Reduced(rows), PositionOf(rows, f.transaction_id), t10)

\* C21: every z-score finding (global threshold 3.0, category 2.5, merchant
\* 2.0) has severity high exactly when z > 2 x threshold, medium exactly when
\* 1.5 x threshold < z <= 2 x threshold, and low otherwise.
C21_SeverityByThresholdRatio ==
    AnomaliesDone =>
        \A k \in Indices(anomalies) :
            /\ DetectorRank(anomalies[k]) = 1
                  => anomalies[k].severity
                         = ClaimedSeverity(anomalies[k], transactions, FALSE, 30)
            /\ DetectorRank(anomalies[k]) = 2
                  => anomalies[k].severity
                         = ClaimedSeverity(anomalies[k],
                               RowsOfCategory(transactions, TxnOf(anomalies[k]).category),
                               FALSE, 25)
            /\ DetectorRank(anomalies[k]) = 4
                  => anomalies[k].severity
                         = ClaimedSeverity(anomalies[k],
                               RowsOfMerchant(transactions,
                                              TxnOf(anomalies[k]).merchant_name),
                               TRUE, 20)

\* one payment has a global finding of severity low, a category finding of
\* severity medium and a merchant finding of severity high
C21_Witness ==
    /\ AnomaliesDone
    /\ \E k, l, m \in Indices(anomalies) :
          /\ anomalies[k].transaction_id = anomalies[l].transaction_id
          /\ anomalies[l].transaction_id = anomalies[m].transaction_id
          /\ DetectorRank(anomalies[k]) = 1 /\ anomalies[k].severity = "low"
          /\ DetectorRank(anomalies[l]) = 2 /\ anomalies[l].severity = "medium"
          /\ DetectorRank(anomalies[m]) = 4 /\ anomalies[m].severity = "high"

-----------------------------------------------------------------------------
(* The merchant pass.                                                      *)

\* z * z of row i for the sample standard deviation, as numerator and
\* denominator
SampleNum(x, i) == Deviation(x, i) * Deviation(x, i) * (Len(x) - 1)

SampleDen(x) == Len(x) * Spread(x)

\* count >= 3, standard deviation > 0 and z > 2.0
MerchantFlagged(x, i) ==
    /\ Len(x) >= 3
    /\ Spread(x) > 0
    /\ Exceeds(SampleNum(x, i), SampleDen(x), 64)

\* min(0.85, z / 3.0) in units of 1/10000, z to three decimals
ThirdOfZ(x, i) == Min(8500, (ZMilli(Ratio4(SampleNum(x, i), SampleDen(x))) * 10) \div 3)

MerchantCandidates == SelectSeq(anomalies, LAMBDA f : f.description = "unusual amount for merchant")

RowsOfSameMerchant(txns, id) ==
    RowsOfMerchant(txns, txns[PositionOf(txns, id)].merchant_name)

MerchantPassIs(txns, found) ==
    /\ IdsIn(found)
          = {txns[i].id : i \in {i \in Indices(txns) :
                MerchantFlagged(Reduced(RowsOfSameMerchant(txns, txns[i].id)),
                                PositionOf(RowsOfSameMerchant(txns, txns[i].id),
                                           txns[i].id))}}
    /\ Len(found) = Cardinality(IdsIn(found))
    /\ \A k \in Indices(found) :
          /\ found[k].anomaly_type = "UNUSUAL_AMOUNT"
          /\ found[k].confidence
                = ThirdOfZ(Reduced(RowsOfSameMerchant(txns, found[k].transaction_id)),
                           PositionOf(RowsOfSameMerchant(txns, found[k].transaction_id),
                                      found[k].transaction_id))

\* C22: the merchant pass emits an UNUSUAL_AMOUNT candidate for exactly the
\* records whose merchant has at least 3 records and a standard deviation
\* above 0 and whose z = |abs_amount - merchant mean| / merchant standard
\* deviation is above 2.0, with confidence min(0.85, z / 3.0); a merchant of
\* fewer than 3 records or of standard deviation 0 has no merchant finding.
C22_MerchantPassAboveTwo ==
    (AnomaliesDone /\ Len(transactions) >= 10 /\ ~HasUnparsable(transactions))
        => MerchantPassIs(transactions, MerchantCandidates)

\* a merchant of six payments has its large one flagged under the cap, and a
\* merchant of four equal payments has none flagged
C22_Witness ==
    /\ AnomaliesDone
    /\ Len(MerchantCandidates) = 1
    /\ MerchantCandidates[1].confidence < 8500
    /\ \E i \in Indices(transactions) :
          /\ Len(RowsOfSameMerchant(transactions, transactions[i].id)) = 4
          /\ AllEqualAmounts(RowsOfSameMerchant(transactions, transactions[i].id))

-----------------------------------------------------------------------------
(* The off-hours rule.                                                     *)

TimingCandidates == SelectSeq(anomalies, LAMBDA f : f.anomaly_type = "UNUSUAL_TIMING")

OffHoursRows(txns) == {i \in Indices(txns) : OffHours(txns[i])}

\* C23: in a batch of at least 10 records the off-hours rule emits an
\* UNUSUAL_TIMING candidate, medium and 0.70, for exactly the records whose
\* hour is 2, 3, 4 or 5, whatever their amount; every such transaction is in
\* the output of detect_anomalies with a confidence of 0.70 or more.
C23_OffHoursFlagged ==
    (AnomaliesDone /\ Len(transactions) >= 10 /\ ~HasUnparsable(transactions))
        => /\ IdsIn(TimingCandidates) = IdsOf(transactions, OffHoursRows(transactions))
           /\ Len(TimingCandidates) = Cardinality(OffHoursRows(transactions))
           /\ \A k \in Indices(TimingCandidates) :
                 /\ TimingCandidates[k].severity = "medium"
                 /\ TimingCandidates[k].confidence = 7000
           /\ \A i \in OffHoursRows(transactions) :
                 \E k \in Indices(response.body) :
                     /\ response.body[k].transaction_id = transactions[i].id
                     /\ response.body[k].confidence >= 7000

\* transactions at 01:59, 02:00, 05:59 and 06:00: the two in the middle are
\* in the output
C23_Witness ==
    /\ AnomaliesDone
    /\ Len(response.body) = 2
    /\ \E i, j \in Indices(transactions) :
          /\ HourOf(transactions[i].posted_at) = 1
          /\ HourOf(transactions[j].posted_at) = 6
    /\ \E i, j \in OffHoursRows(transactions) :
          /\ HourOf(transactions[i].posted_at) = 2
          /\ HourOf(transactions[j].posted_at) = 5

-----------------------------------------------------------------------------
(* The recurrence test of a merchant's payments                            *)

\* the day gaps between consecutive payments of a merchant, oldest first
GapsOf(txns, merchant) ==
    LET h == History(txns, merchant)
    IN  [i \in 1..(Len(h) - 1) |-> DaysBetween(h[i].posted_at, h[i + 1].posted_at)]

SumOfGaps(gaps) == SumTo(gaps, Len(gaps))

\* Len(gaps)^2 times the population variance of the gaps
SpreadOfGaps(gaps) ==
    Len(gaps) * SumTo([i \in 1..Len(gaps) |-> gaps[i] * gaps[i]], Len(gaps))
        - SumOfGaps(gaps) * SumOfGaps(gaps)

\* (i) the mean gap is between 7 and 90 days and the population standard
\* deviation of the gaps is below 0.3 times the mean
SteadyGaps(gaps) ==
    /\ 7 * Len(gaps) <= SumOfGaps(gaps)
    /\ SumOfGaps(gaps) <= 90 * Len(gaps)
    /\ 100 * SpreadOfGaps(gaps) < 9 * SumOfGaps(gaps) * SumOfGaps(gaps)

\* (ii) at least 70% of the gaps are between 25 and 35 days
MostlyMonthlyGaps(gaps) ==
    10 * Cardinality({i \in 1..Len(gaps) : gaps[i] \in 25..35}) >= 7 * Len(gaps)

\* C24: a merchant group of at least 3 spending records passes the recurrence
\* test exactly when (i) its mean gap is between 7 and 90 days and the
\* population standard deviation of its gaps is below 0.3 times the mean, or
\* (ii) at least 70% of its gaps are between 25 and 35 days; a group that does
\* not pass has no finding.
C24_RecurringByGaps ==
    RisingDone =>
        \A k \in Indices(payment_analysis) :
            payment_analysis[k].gate # "skipped" =>
                /\ payment_analysis[k].gate = "recurring"
                      <=> ~(\/ SteadyGaps(GapsOf(transactions, payment_analysis[k].merchant_name))
                            \/ MostlyMonthlyGaps(GapsOf(transactions,
                                                       payment_analysis[k].merchant_name)))
                /\ payment_analysis[k].gate = "recurring" =>
                      /\ ~payment_analysis[k].emitted
                      /\ \A i \in Indices(response.body) :
                            response.body[i].merchant_name
                                # payment_analysis[k].merchant_name
                      /\ \A i \in Indices(rising_payments) :
                            rising_payments[i].merchant_name
                                # payment_analysis[k].merchant_name

\* a merchant of three monthly gaps and one of 200 days, recurring by (ii)
\* alone, has a finding
C24_Witness ==
    /\ RisingDone
    /\ \E k \in Indices(payment_analysis) :
          /\ payment_analysis[k].emitted
          /\ ~SteadyGaps(GapsOf(transactions, payment_analysis[k].merchant_name))
          /\ MostlyMonthlyGaps(GapsOf(transactions, payment_analysis[k].merchant_name))
          /\ \E i \in Indices(response.body) :
                response.body[i].merchant_name = payment_analysis[k].merchant_name

\* a merchant of rising payments whose gaps of 7 and 13 days have a standard
\* deviation of exactly 0.3 times their mean was discarded as not recurring
C24_BoundaryDiscarded ==
    /\ RisingDone
    /\ \E k \in Indices(payment_analysis) :
          /\ payment_analysis[k].gate = "recurring"
          /\ GapsOf(transactions, payment_analysis[k].merchant_name) = <<7, 13>>

-----------------------------------------------------------------------------
(* The frequency label of a finding                                        *)

\* the integers nearest to total / count (two of them at a half)
NearestTo(total, count) ==
    {n \in 0..(total + 1) : 2 * Abs(n * count - total) <= count}

\* the labels of a merchant whose gaps have the given sum: the named ranges of
\* the mean gap, and every_N_days with N in the given set otherwise
LabelsOf(gaps, days) ==
    IF SumOfGaps(gaps) <= 10 * Len(gaps) THEN {[label |-> "weekly", days |-> 0]}
    ELSE IF 25 * Len(gaps) <= SumOfGaps(gaps) /\ SumOfGaps(gaps) <= 35 * Len(gaps)
         THEN {[label |-> "monthly", days |-> 0]}
    ELSE IF 85 * Len(gaps) <= SumOfGaps(gaps) /\ SumOfGaps(gaps) <= 95 * Len(gaps)
         THEN {[label |-> "quarterly", days |-> 0]}
    ELSE IF SumOfGaps(gaps) >= 350 * Len(gaps)
         THEN {[label |-> "yearly", days |-> 0]}
    ELSE {[label |-> "every_N_days", days |-> n] : n \in days}

\* C25: the frequency label of a finding is weekly when the mean gap is at
\* most 10 days, monthly from 25 to 35, quarterly from 85 to 95, yearly from
\* 350, and otherwise every_N_days with N the mean gap rounded to the nearest
\* integer.
C25_LabelByRoundedMeanGap ==
    RisingDone =>
        \A i \in Indices(response.body) :
            response.body[i].frequency
                \in LabelsOf(GapsOf(transactions, response.body[i].merchant_name),
                             NearestTo(SumOfGaps(GapsOf(transactions,
                                                        response.body[i].merchant_name)),
                                       Len(GapsOf(transactions,
                                                  response.body[i].merchant_name))))

\* what the findings carry instead: N is the mean gap with its fraction cut off
C25_LabelByTruncatedMeanGap ==
    RisingDone =>
        \A i \in Indices(response.body) :
            response.body[i].frequency
                \in LabelsOf(GapsOf(transactions, response.body[i].merchant_name),
                             {SumOfGaps(GapsOf(transactions, response.body[i].merchant_name))
                                 \div Len(GapsOf(transactions,
                                                 response.body[i].merchant_name))})

\* a finding labelled quarterly was returned
C25_QuarterlySeen ==
    /\ RisingDone
    /\ \E i \in Indices(response.body) : response.body[i].frequency.label = "quarterly"

-----------------------------------------------------------------------------
(* The confidence of a finding                                             *)

\* the least-squares slope of the amounts y[1..n] over 0..n-1, in cents a
\* payment, is 6 * sum of (2i - n - 1) * y[i] over n * (n^2 - 1)
TrendNum(h) ==
    6 * SumTo([i \in 1..Len(h) |-> (2 * i - Len(h) - 1) * Abs(h[i].amount)], Len(h))

TrendDen(h) == Len(h) * (Len(h) * Len(h) - 1)

\* the population standard deviation of the gaps is below 0.2 times their mean
EvenGaps(gaps) ==
    100 * SpreadOfGaps(gaps) < 4 * SumOfGaps(gaps) * SumOfGaps(gaps)

\* 0.5 + min(0.2, count / 50) + min(0.2, slope / 10)
\*     + min(0.2, increase_percentage / 100) + 0.1 for even gaps,
\* in 1/10000, the slope in dollars a payment, each part cut to 1/10000
SumOfParts(h, gaps) ==
    5000 + Min(2000, (10000 * Len(h)) \div 50)
         + Min(2000, (10 * TrendNum(h)) \div TrendDen(h))
         + Min(2000, (10000 * (Abs(h[Len(h)].amount) - Abs(h[1].amount)))
                        \div Abs(h[1].amount))
         + (IF EvenGaps(gaps) THEN 1000 ELSE 0)

\* C26: the confidence of a finding is 0.5 + min(0.2, count/50)
\* + min(0.2, slope/10) + min(0.2, increase_percentage/100), plus 0.1 when the
\* population standard deviation of the gaps is below 0.2 times their mean,
\* clamped to [0.3, 0.95].
C26_ConfidenceBySumOfParts ==
    RisingDone =>
        \A k \in Indices(rising_payments) :
            rising_payments[k].confidence
                = Min(9500, Max(3000,
                      SumOfParts(History(transactions, rising_payments[k].merchant_name),
                                 GapsOf(transactions, rising_payments[k].merchant_name))))

\* findings below the clamp were returned: one of 0.84 with even gaps and no
\* part at its cap
C26_Witness ==
    /\ RisingDone
    /\ \E i \in Indices(response.body) :
          /\ response.body[i].confidence = 8400
          /\ EvenGaps(GapsOf(transactions, response.body[i].merchant_name))

\* a finding of 0.82 whose gaps are recurring and not even was returned
C26_UnevenGaps ==
    /\ RisingDone
    /\ \E i \in Indices(response.body) :
          /\ response.body[i].confidence = 8200
          /\ ~EvenGaps(GapsOf(transactions, response.body[i].merchant_name))

\* a finding clamped to 0.95 was returned
C26_Clamped ==
    /\ RisingDone
    /\ \E i \in Indices(response.body) :
          /\ response.body[i].confidence = 9500
          /\ SumOfParts(History(transactions, response.body[i].merchant_name),
                        GapsOf(transactions, response.body[i].merchant_name)) > 9500

-----------------------------------------------------------------------------
(* Incoming transactions and the rising payments                           *)

\* C27: detect_rising_payments works on the spending view of its input only:
\* the transactions with amount >= 0 do not affect its result, so the answer
\* to a request is the answer to the request without them; and a finding is
\* about the spending transactions of exactly its raw merchant name.
C27_InflowsDoNotMatter ==
    RisingDone =>
        /\ response.body = DetectRisingPayments(SpendingOf(transactions)).value
        /\ \A i \in Indices(response.body) :
              /\ response.body[i].current_amount
                    = Abs(History(transactions, response.body[i].merchant_name)
                              [Len(History(transactions,
                                           response.body[i].merchant_name))].amount)
              /\ response.body[i].previous_amount
                    = Abs(History(transactions, response.body[i].merchant_name)[1].amount)

\* what holds instead: the incoming transactions matter only through the
\* length of the request
C27_InflowsCountTowardsTen ==
    (RisingDone /\ Len(SpendingOf(transactions)) >= MinPaymentTransactions) =>
        response.body = DetectRisingPayments(SpendingOf(transactions)).value

\* a request with at least 10 spending transactions and some incoming ones
\* was answered with a finding
C27_ManyPaymentsSeen ==
    /\ RisingDone
    /\ Len(SpendingOf(transactions)) >= MinPaymentTransactions
    /\ Len(SpendingOf(transactions)) < Len(transactions)
    /\ response.body # <<>>

\* a request with fewer than 10 spending transactions was answered with a
\* finding, which the spending transactions alone do not give
C27_FindingThanksToInflows ==
    /\ RisingDone
    /\ Len(SpendingOf(transactions)) < MinPaymentTransactions
    /\ response.body # <<>>
    /\ DetectRisingPayments(SpendingOf(transactions)).value = <<>>

-----------------------------------------------------------------------------
(* The global pass on 10 records                                           *)

C28_TenRecordsOnlyByRounding ==
    (AnomaliesDone /\ Len(transactions) = 10) =>
        \A k \in Indices(GlobalCandidates) :
            /\ float_rounding = "above"
            /\ GlobalCandidates[k].z_score = 3000
            /\ Cardinality({i \in Indices(transactions) :
                               transactions[i].amount
                                   = TxnOf(GlobalCandidates[k]).amount}) = 1
            /\ Cardinality({Abs(transactions[i].amount) : i \in Indices(transactions)}) = 2

\* 10 records, nine of one amount, and the tenth has a global finding
C28_TenRecordsFlagged ==
    /\ AnomaliesDone
    /\ Len(transactions) = 10
    /\ Len(GlobalCandidates) = 1
    /\ GlobalCandidates[1].severity = "low"
    /\ GlobalCandidates[1].confidence = 6000

\* 10 records, nine of one amount, and no global finding: z compared as 3.0
C28_TenRecordsNotFlagged ==
    /\ AnomaliesDone
    /\ Len(transactions) = 10
    /\ float_rounding = "exact"
    /\ GlobalCandidates = <<>>
    /\ Cardinality({i \in Indices(transactions) :
                       transactions[i].amount = transactions[2].amount}) = 9

\* 11 records and a global finding whatever the rounding
C28_ElevenRecordsFlagged ==
    /\ AnomaliesDone
    /\ Len(transactions) = 11
    /\ float_rounding = "exact"
    /\ GlobalCandidates # <<>>

-----------------------------------------------------------------------------
(* The merchant pass on small merchants                                    *)

\* C29: the merchant pass never emits a finding for a merchant with fewer
\* than 6 records in the batch, whatever the amounts: with the sample
\* standard deviation the largest z among n records is (n - 1) / sqrt(n),
\* which is above 2.0 only from n = 6.
C29_MerchantFindingNeedsSix ==
    AnomaliesDone =>
        \A k \in Indices(MerchantCandidates) :
            Len(RowsOfSameMerchant(transactions, MerchantCandidates[k].transaction_id)) >= 6

\* a merchant of exactly six records, five of them equal, has the sixth
\* flagged
C29_Witness ==
    /\ AnomaliesDone
    /\ \E k \in Indices(MerchantCandidates) :
          /\ Len(RowsOfSameMerchant(transactions,
                                    MerchantCandidates[k].transaction_id)) = 6
          /\ Cardinality({Abs(transactions[j].amount) :
                             j \in {j \in Indices(transactions) :
                                       transactions[j].merchant_name
                                           = TxnOf(MerchantCandidates[k]).merchant_name}}) = 2

\* a merchant of five records, four equal and one a hundred times larger,
\* has none flagged by the merchant pass
C29_FiveNotFlagged ==
    /\ AnomaliesDone
    /\ Len(transactions) >= 10
    /\ \E i \in Indices(transactions) :
          /\ Len(RowsOfSameMerchant(transactions, transactions[i].id)) = 5
          /\ Abs(transactions[i].amount) = BigAmount
          /\ Cardinality({j \in Indices(transactions) :
                             /\ transactions[j].merchant_name = transactions[i].merchant_name
                             /\ Abs(transactions[j].amount) = BaseAmount}) = 4
          /\ \A k \in Indices(MerchantCandidates) :
                TxnOf(MerchantCandidates[k]).merchant_name # transactions[i].merchant_name

-----------------------------------------------------------------------------
(* What every finding of rising payments satisfies                         *)

\* C30: every finding returned by detect_rising_payments has current_amount
\* above previous_amount, increase_percentage of at least 5, a frequency other
\* than "unknown" and a confidence of at least 0.66 (0.5 + 3/50 + 0.05 + 0.05),
\* so the lower clamp 0.3 is never the confidence of a finding.
C30_FindingsRiseAndAreConfident ==
    RisingDone =>
        \A i \in Indices(response.body) :
            /\ response.body[i].current_amount > response.body[i].previous_amount
            /\ response.body[i].increase_percentage >= 10 * MinIncreasePercent
            /\ response.body[i].frequency.label # "unknown"
            /\ response.body[i].confidence >= 6600
            /\ response.body[i].confidence # MinConfidence

\* a finding of three payments close to the least slope and the least
\* increase was returned, with a confidence between 0.66 and 0.67
C30_Witness ==
    /\ RisingDone
    /\ \E i \in Indices(response.body) :
          /\ response.body[i].confidence < 6700
          /\ response.body[i].increase_percentage = 51
          /\ Len(History(transactions, response.body[i].merchant_name)) = 3

====
